---- MODULE Spec2Model ----
(***************************************************************************)
(* A model of the rubric-gated certification core of rubric-gates:        *)
(* RubricEvaluator (evaluate_check, evaluate_tier, evaluate,               *)
(* _compute_gate_decision) and create_certificate of                       *)
(* src/src/rubric_gates/evaluator.py, the certificate verifier of          *)
(* src/src/rubric_gates/verify.py, the Merkle root and the dataset         *)
(* manifest of src/src/rubric_gates/datasets/manifest.py, the rubric       *)
(* loader of src/src/rubric_gates/rubric_loader.py, the evaluate command   *)
(* of src/src/rubric_gates/cli.py and the benchmark harness of             *)
(* src/src/rubric_gates/harness.py.                                        *)
(*                                                                         *)
(* Python values are tagged records [t, n, s]: t is the Python type, n the *)
(* numeric value in hundredths (0.7 is 70, True is 100) or a container's   *)
(* length, s the characters of a string.  A key that a mapping does not    *)
(* hold is the value Absent.  A call either returns a value or raises:     *)
(* its outcome is [exc, value], exc = "none" when it returned.             *)
(***************************************************************************)
EXTENDS Integers, Sequences, FiniteSets, TLC

VARIABLES
    rubrics_by_tier,   \* RubricEvaluator.rubrics_by_tier: tier -> list of suites
    artifact,          \* the artifact mapping of the call
    context,           \* the context mapping of the call
    check,             \* the RubricCheck handed to evaluate_check
    check_out,         \* outcome of evaluate_check
    tier,              \* the tier handed to evaluate_tier
    tier_out,          \* outcome of evaluate_tier
    tier_results,      \* the tier -> TierResult mapping handed to _compute_gate_decision
    gate_decision,     \* the GateDecision it returned
    results,           \* outcomes of the calls of evaluate made so far, in order
    pc,                \* the operation performed last
    provenance_in,     \* the provenance mapping handed to create_certificate
    certificate,       \* outcome of create_certificate, or the document handed to the verifier
    artifact_path,     \* the artifact_path argument of verify_certificate
    artifact_file,     \* what the file system holds at artifact_path
    certificate_file,  \* what the file system holds at certificate_path
    file_reads,        \* number of times the verifier opened the artifact file
    verify_out,        \* outcome of verify_certificate or verify_certificate_file
    calls,             \* the calls of evaluate in progress on one shared evaluator
    hashes,            \* the list handed to _compute_merkle_root
    other_hashes,      \* a second list, related to the first
    merkle_out,        \* the roots _compute_merkle_root returned for the two lists
    dataset_dir,       \* the files under the dataset directory: path -> content
    exclude_patterns,  \* the exclude_patterns argument of create_manifest
    manifest,          \* outcome of the first create_manifest, with the directory it saw
    recreated,         \* outcome of a later create_manifest, with the directory it saw
    manifest_out,      \* outcome of verify_manifest
    rubrics_dir,       \* the rubric files under tier1/, tier2/ and tier3/ of the rubrics directory
    loaded,            \* outcomes of the calls of load_all_rubrics made so far, in order
    cli_args,          \* the arguments of the evaluate command
    cli_out,           \* outcome of cmd_evaluate: its exit code, what it wrote
    artifacts_and_contexts,  \* the pairs the artifact generator returned for the dataset
    position,          \* the number of pairs the loop of _evaluate_dataset has taken
    certificates,      \* the certificates _evaluate_dataset has appended so far
    pass_count,        \* its counter of approve decisions
    revise_count,      \* its counter of revise decisions
    block_count,       \* its counter of the other decisions
    dataset_result     \* outcome of _evaluate_dataset

evaluatorVars == <<rubrics_by_tier, artifact, context, check, check_out, tier, tier_out, tier_results, gate_decision, results, pc>>
certificateVars == <<provenance_in, certificate>>
verifyVars == <<artifact_path, artifact_file, certificate_file, file_reads, verify_out>>
concurrencyVars == <<calls>>
merkleVars == <<hashes, other_hashes, merkle_out>>
manifestVars == <<dataset_dir, exclude_patterns, manifest, recreated, manifest_out>>
loaderVars == <<rubrics_dir, loaded>>
cliVars == <<cli_args, cli_out>>
harnessVars == <<artifacts_and_contexts, position, certificates, pass_count, revise_count, block_count, dataset_result>>
toolVars == <<loaderVars, cliVars, harnessVars>>
serviceVars == <<certificateVars, verifyVars, concurrencyVars, merkleVars, manifestVars, toolVars>>
vars == <<evaluatorVars, serviceVars>>

(***************************************************************************)
(* Bounds of the model.                                                    *)
(***************************************************************************)
MaxChecks == 3   \* CheckResults in the tier results handed to the gate
MaxCalls == 2    \* calls of evaluate on one evaluator
MaxThreads == 2  \* calls of evaluate in progress at once on one shared evaluator
MaxHashes == 4   \* hashes in a list handed to _compute_merkle_root
MaxFiles == 2    \* paths of data files under the dataset directory

(***************************************************************************)
(* Python values.                                                          *)
(***************************************************************************)
Absent == [t |-> "absent", n |-> 0, s |-> <<>>]
PyNone == [t |-> "NoneType", n |-> 0, s |-> <<>>]
PyTrue == [t |-> "bool", n |-> 100, s |-> <<>>]
PyFalse == [t |-> "bool", n |-> 0, s |-> <<>>]
PyBool(b) == IF b THEN PyTrue ELSE PyFalse
PyFloat(h) == [t |-> "float", n |-> h, s |-> <<>>]
PyInt(i) == [t |-> "int", n |-> 100 * i, s |-> <<>>]
PyStr(chars) == [t |-> "str", n |-> Len(chars), s |-> chars]
PyList(len) == [t |-> "list", n |-> len, s |-> <<>>]

\* dict.get(key, default): the default stands in for a key that is absent.
Get(v, default) == IF v.t = "absent" THEN default ELSE v

\* bool(v): None, False, 0, 0.0, "" and empty containers are falsy.
Truthy(v) == v.t \notin {"absent", "NoneType"} /\ v.n # 0

\* int, float and bool compare with a float; anything else raises TypeError.
IsNumber(v) == v.t \in {"bool", "int", "float"}

\* str.lower() on the characters the model uses.
LowerChar(c) ==
    CASE c = "S" -> "s"
      [] c = "N" -> "n"
      [] c = "M" -> "m"
      [] c = "R" -> "r"
      [] c = "P" -> "p"
      [] c = "D" -> "d"
      [] OTHER -> c
Lower(chars) == [i \in 1..Len(chars) |-> LowerChar(chars[i])]

\* marker in text (substring test).
Contains(marker, text) ==
    \E i \in 0..(Len(text) - Len(marker)) :
        \A j \in 1..Len(marker) : text[i + j] = marker[j]

\* The denylist of tier1.no_phi_in_artifacts.
PhiMarkers ==
    { <<"s","s","n">>,
      <<"s","o","c","i","a","l"," ","s","e","c","u","r","i","t","y">>,
      <<"p","a","t","i","e","n","t"," ","n","a","m","e">>,
      <<"m","r","n">>,
      <<"m","e","d","i","c","a","l"," ","r","e","c","o","r","d">> }

(***************************************************************************)
(* CheckResult and its messages.  A message is None or a string; a string  *)
(* is its fixed text plus what the code formats into it: a check id and     *)
(* numbers.                                                                *)
(***************************************************************************)
NoMessage == [t |-> "NoneType", text |-> "", id |-> "", args |-> <<>>]
Msg(text) == [t |-> "str", text |-> text, id |-> "", args |-> <<>>]
MsgId(text, id) == [t |-> "str", text |-> text, id |-> id, args |-> <<>>]
MsgArgs(text, args) == [t |-> "str", text |-> text, id |-> "", args |-> args]
MessageTruthy(m) == m.t = "str" /\ m.text # ""

CheckResult(id, passed, score, threshold, message) ==
    [id |-> id, passed |-> passed, score |-> score, threshold |-> threshold, message |-> message]

Returned(v) == [exc |-> "none", value |-> v]
NoCheckResult == CheckResult("", PyNone, PyNone, PyNone, NoMessage)
RaisedCheck(e) == [exc |-> e, value |-> NoCheckResult]

(***************************************************************************)
(* Mappings the checks look into.  A nested mapping keeps the keys the     *)
(* code reads: provenance its audit_trace_id, a feature its unit; features *)
(* keeps its entries in insertion order, the order values() yields them.   *)
(***************************************************************************)
Provenance(t, n, trace) == [t |-> t, n |-> n, audit_trace_id |-> trace]
EmptyDict == Provenance("dict", 0, Absent)
Feature(t, n, unit) == [t |-> t, n |-> n, unit |-> unit]
Features(t, n, items) == [t |-> t, n |-> n, items |-> items]
EmptyFeatures == Features("dict", 0, <<>>)
Scoring(t, n, threshold) == [t |-> t, n |-> n, threshold |-> threshold]
NoScoring == Scoring("NoneType", 0, Absent)
RubricCheck(id, scoring) == [id |-> id, scoring |-> scoring]

\* The default threshold of tier3.cohort_overlap_jaccard, in hundredths (0.7).
DefaultThreshold == 70

\* all(f.get("unit") for f in features.values()): the generator stops at the
\* first entry whose unit is falsy and raises at the first entry that is no mapping,
\* whichever comes first.
AllHaveUnits(items) ==
    LET stops == {i \in 1..Len(items) : items[i].v.t # "dict" \/ ~Truthy(Get(items[i].v.unit, PyNone))}
    IN  IF stops = {} THEN Returned(TRUE)
        ELSE LET first == CHOOSE i \in stops : \A j \in stops : i <= j
             IN  IF items[first].v.t # "dict" THEN [exc |-> "AttributeError", value |-> FALSE]
                 ELSE Returned(FALSE)

(***************************************************************************)
(* RubricEvaluator.evaluate_check, branch by branch.                       *)
(***************************************************************************)
DeterminismRequired(a) ==
    LET has_executor == Truthy(Get(a.deterministic_executor, PyNone))
        has_version == Truthy(Get(a.version, PyNone))
        passed == has_executor /\ has_version
    IN  Returned(CheckResult("tier1.determinism_required", PyBool(passed), PyNone, PyNone,
            IF passed THEN NoMessage ELSE Msg("Missing deterministic_executor or version")))

AuditTraceComplete(c) ==
    LET provenance == IF c.provenance.t = "absent" THEN EmptyDict ELSE c.provenance
        has_trace == Truthy(Get(provenance.audit_trace_id, PyNone))
    IN  IF provenance.t # "dict" THEN RaisedCheck("AttributeError")
        ELSE Returned(CheckResult("tier1.audit_trace_complete", PyBool(has_trace), PyNone, PyNone,
                IF has_trace THEN NoMessage ELSE Msg("Missing audit_trace_id in provenance")))

NoPhiInArtifacts(a) ==
    LET inputs_summary == Get(a.inputs_summary, PyStr(<<>>))
        has_phi_markers == \E marker \in PhiMarkers : Contains(marker, Lower(inputs_summary.s))
        passed == ~has_phi_markers
    IN  IF inputs_summary.t # "str" THEN RaisedCheck("AttributeError")
        ELSE Returned(CheckResult("tier1.no_phi_in_artifacts", PyBool(passed), PyNone, PyNone,
                IF passed THEN NoMessage ELSE Msg("Potential PHI detected in inputs_summary")))

UnitConsistency(c) ==
    LET features == IF c.features.t = "absent" THEN EmptyFeatures ELSE c.features
        units == AllHaveUnits(features.items)
        all_have_units == IF Truthy(features) THEN units.value ELSE TRUE
    IN  IF Truthy(features) /\ features.t # "dict" THEN RaisedCheck("AttributeError")
        ELSE IF Truthy(features) /\ units.exc # "none" THEN RaisedCheck(units.exc)
        ELSE Returned(CheckResult("tier2.unit_consistency", PyBool(all_have_units),
                PyFloat(IF all_have_units THEN 100 ELSE 0), PyFloat(100),
                IF all_have_units THEN NoMessage ELSE Msg("Some features missing unit declarations")))

TemporalCoherence(c) ==
    LET has_index_time == Truthy(Get(c.index_time, PyNone))
    IN  Returned(CheckResult("tier2.temporal_coherence", PyBool(has_index_time), PyNone, PyNone,
            IF has_index_time THEN NoMessage ELSE Msg("Missing index_time for temporal coherence check")))

OutcomeLeakagePrevention(c) ==
    LET has_leakage == Get(c.has_outcome_leakage, PyFalse)
    IN  Returned(CheckResult("tier2.outcome_leakage_prevention", PyBool(~Truthy(has_leakage)), PyNone, PyNone,
            IF Truthy(has_leakage) THEN Msg("Outcome leakage detected") ELSE NoMessage))

\* passed is the context's value itself, whatever its type.
SqlExecutes(c) ==
    LET sql_executed == Get(c.sql_executed, PyFalse)
    IN  Returned(CheckResult("tier3.sql_executes", sql_executed, PyNone, PyNone,
            IF Truthy(sql_executed) THEN NoMessage ELSE Msg("SQL did not execute successfully")))

\* As if the comparison were strict.
CohortOverlapJaccardStrict(ck, c) ==
    LET jaccard == Get(c.cohort_jaccard, PyFloat(0))
        threshold == IF Truthy(ck.scoring) THEN Get(ck.scoring.threshold, PyFloat(DefaultThreshold))
                     ELSE PyFloat(DefaultThreshold)
        passed == jaccard.n > threshold.n
    IN  IF ~(IsNumber(jaccard) /\ IsNumber(threshold)) THEN RaisedCheck("TypeError")
        ELSE Returned(CheckResult("tier3.cohort_overlap_jaccard", PyBool(passed), jaccard, threshold,
                MsgArgs(IF passed THEN "Jaccard {:.2f} >= {}" ELSE "Jaccard {:.2f} < {}", <<jaccard.n, threshold.n>>)))

CohortOverlapJaccard(ck, c) ==
    LET jaccard == Get(c.cohort_jaccard, PyFloat(0))
        threshold == IF Truthy(ck.scoring) THEN Get(ck.scoring.threshold, PyFloat(DefaultThreshold))
                     ELSE PyFloat(DefaultThreshold)
        passed == jaccard.n >= threshold.n
    IN  IF ~(IsNumber(jaccard) /\ IsNumber(threshold)) THEN RaisedCheck("TypeError")
        ELSE Returned(CheckResult("tier3.cohort_overlap_jaccard", PyBool(passed), jaccard, threshold,
                MsgArgs(IF passed THEN "Jaccard {:.2f} >= {}" ELSE "Jaccard {:.2f} < {}", <<jaccard.n, threshold.n>>)))

\* As if a check id without a branch were failed.
UnknownCheckFailClosed(check_id) ==
    Returned(CheckResult(check_id, PyFalse, PyNone, PyNone, MsgId("Unknown check {} - defaulting to fail", check_id)))

\* The default branch: a check id none of the branches above handles.
UnknownCheck(check_id) ==
    Returned(CheckResult(check_id, PyTrue, PyNone, PyNone, MsgId("Unknown check {} - defaulting to pass", check_id)))

evaluate_check(ck, a, c) ==
    LET check_id == ck.id
    IN  CASE check_id = "tier1.determinism_required" -> DeterminismRequired(a)
          [] check_id = "tier1.audit_trace_complete" -> AuditTraceComplete(c)
          [] check_id = "tier1.no_phi_in_artifacts" -> NoPhiInArtifacts(a)
          [] check_id = "tier1.no_outcome_claims_without_validation" ->
                Returned(CheckResult(check_id, PyTrue, PyNone, PyNone, Msg("Policy check - requires human review")))
          [] check_id = "tier2.unit_consistency" -> UnitConsistency(c)
          [] check_id = "tier2.plausible_ranges" ->
                Returned(CheckResult(check_id, PyTrue, PyFloat(100), PyFloat(95), NoMessage))
          [] check_id = "tier2.temporal_coherence" -> TemporalCoherence(c)
          [] check_id = "tier2.outcome_leakage_prevention" -> OutcomeLeakagePrevention(c)
          [] check_id = "tier3.sql_executes" -> SqlExecutes(c)
          [] check_id = "tier3.cohort_overlap_jaccard" -> CohortOverlapJaccard(ck, c)
          [] OTHER -> UnknownCheck(check_id)

(***************************************************************************)
(* Values of the variables an operation has not touched.                   *)
(***************************************************************************)
NoCatalog == [t \in 1..3 |-> <<>>]
NoCheck == RubricCheck("", NoScoring)
NoTierResult == [tier |-> 0, passed |-> TRUE, checks |-> <<>>]
NoTierResults == [t \in 1..3 |-> [present |-> FALSE, result |-> NoTierResult]]
NoGateDecision ==
    [decision |-> "", blocking_reasons |-> <<>>, required_fixes |-> <<>>, deferral_recommended |-> FALSE, deferral_to |-> NoMessage]

\* The components an operation of the evaluator does not involve.
NotCalled == [exc |-> "not called"]
IdleCertificate == provenance_in = {} /\ certificate = NotCalled
IdleVerify ==
    /\ artifact_path = PyNone
    /\ artifact_file = NotCalled
    /\ certificate_file = NotCalled
    /\ file_reads = 0
    /\ verify_out = NotCalled
IdleConcurrency == calls = <<>>
IdleMerkle == hashes = <<>> /\ other_hashes = <<>> /\ merkle_out = NotCalled
IdleManifest == dataset_dir = <<>> /\ exclude_patterns = <<>> /\ manifest = NotCalled /\ recreated = NotCalled /\ manifest_out = NotCalled
IdleLoader == rubrics_dir = <<>> /\ loaded = <<>>
IdleCli == cli_args = NotCalled /\ cli_out = NotCalled
IdleHarness ==
    /\ artifacts_and_contexts = <<>>
    /\ position = 0
    /\ certificates = <<>>
    /\ pass_count = 0 /\ revise_count = 0 /\ block_count = 0
    /\ dataset_result = NotCalled
IdleTools == IdleLoader /\ IdleCli /\ IdleHarness
IdleServices == IdleCertificate /\ IdleVerify /\ IdleConcurrency /\ IdleMerkle /\ IdleManifest /\ IdleTools

(***************************************************************************)
(* RubricEvaluator._compute_gate_decision.  tier_results maps a tier to    *)
(* [present, result]: present is FALSE where tier_results.get(tier) is     *)
(* None.  A blocking reason "Tier N violation: <id>" is the string's text  *)
(* and the id formatted into it.                                           *)
(***************************************************************************)
TierResult(t, passed, checks) == [tier |-> t, passed |-> passed, checks |-> checks]

ViolationText(t) ==
    CASE t = 1 -> "Tier 1 violation: {}"
      [] t = 2 -> "Tier 2 violation: {}"
      [] t = 3 -> "Tier 3 violation: {}"

\* The checks of tier t the three loops append for: none unless the tier result
\* is there and has not passed, and then those whose passed is falsy.
FailedChecks(tr, t) ==
    IF tr[t].present /\ ~tr[t].result.passed
    THEN SelectSeq(tr[t].result.checks, LAMBDA c : ~Truthy(c.passed))
    ELSE <<>>

\* tier1_passed, tier2_passed, tier3_passed.
TierPassed(tr, t) == ~tr[t].present \/ tr[t].result.passed

\* As if the chain tested tier 3 before tiers 1 and 2.
DecideTier3First(tr) ==
    IF ~TierPassed(tr, 3) THEN [decision |-> "revise", deferral_recommended |-> FALSE]
    ELSE IF ~TierPassed(tr, 1) THEN [decision |-> "block", deferral_recommended |-> TRUE]
    ELSE IF ~TierPassed(tr, 2) THEN [decision |-> "block", deferral_recommended |-> TRUE]
    ELSE [decision |-> "approve", deferral_recommended |-> FALSE]

\* As if a tier-3 failure blocked.
DecideBlockOnTier3(tr) ==
    IF ~TierPassed(tr, 1) THEN [decision |-> "block", deferral_recommended |-> TRUE]
    ELSE IF ~TierPassed(tr, 2) THEN [decision |-> "block", deferral_recommended |-> TRUE]
    ELSE IF ~TierPassed(tr, 3) THEN [decision |-> "block", deferral_recommended |-> FALSE]
    ELSE [decision |-> "approve", deferral_recommended |-> FALSE]

\* As if a tier-2 failure asked for a revision only.
DecideReviseOnTier2(tr) ==
    IF ~TierPassed(tr, 1) THEN [decision |-> "block", deferral_recommended |-> TRUE]
    ELSE IF ~TierPassed(tr, 2) THEN [decision |-> "revise", deferral_recommended |-> FALSE]
    ELSE IF ~TierPassed(tr, 3) THEN [decision |-> "revise", deferral_recommended |-> FALSE]
    ELSE [decision |-> "approve", deferral_recommended |-> FALSE]

\* As if the chain had no branch for tier 3.
DecideIgnoringTier3(tr) ==
    IF ~TierPassed(tr, 1) THEN [decision |-> "block", deferral_recommended |-> TRUE]
    ELSE IF ~TierPassed(tr, 2) THEN [decision |-> "block", deferral_recommended |-> TRUE]
    ELSE [decision |-> "approve", deferral_recommended |-> FALSE]

\* The decision logic: the if / elif chain.
Decide(tr) ==
    IF ~TierPassed(tr, 1) THEN [decision |-> "block", deferral_recommended |-> TRUE]
    ELSE IF ~TierPassed(tr, 2) THEN [decision |-> "block", deferral_recommended |-> TRUE]
    ELSE IF ~TierPassed(tr, 3) THEN [decision |-> "revise", deferral_recommended |-> FALSE]
    ELSE [decision |-> "approve", deferral_recommended |-> FALSE]

BlockingReasonsOf(tr, t) ==
    LET failed == FailedChecks(tr, t)
    IN  [i \in 1..Len(failed) |-> MsgId(ViolationText(t), failed[i].id)]

RequiredFixesOf(tr, t) ==
    LET withMessage == SelectSeq(FailedChecks(tr, t), LAMBDA c : MessageTruthy(c.message))
    IN  [i \in 1..Len(withMessage) |-> withMessage[i].message]

\* As if the loops of the later tiers ran only when no earlier tier had failed.
AccumulateDecidingTierOnly(tr) ==
    LET first == IF ~TierPassed(tr, 1) THEN 1 ELSE IF ~TierPassed(tr, 2) THEN 2 ELSE 3
    IN  [blocking_reasons |-> BlockingReasonsOf(tr, first), required_fixes |-> RequiredFixesOf(tr, first)]

\* blocking_reasons and required_fixes after the three loops.
Accumulate(tr) ==
    [ blocking_reasons |-> BlockingReasonsOf(tr, 1) \o BlockingReasonsOf(tr, 2) \o BlockingReasonsOf(tr, 3),
      required_fixes |-> RequiredFixesOf(tr, 1) \o RequiredFixesOf(tr, 2) \o RequiredFixesOf(tr, 3) ]

\* As if deferral_to were "human_review" whatever the decision, as it is in the
\* dictionary GateDecision.to_dict writes.
_compute_gate_decision_always_to_human(tr) ==
    LET lists == Accumulate(tr)
        d == Decide(tr)
    IN  [ decision |-> d.decision,
          blocking_reasons |-> lists.blocking_reasons,
          required_fixes |-> lists.required_fixes,
          deferral_recommended |-> d.deferral_recommended,
          deferral_to |-> Msg("human_review") ]

_compute_gate_decision(tr) ==
    LET lists == Accumulate(tr)
        d == Decide(tr)
    IN  [ decision |-> d.decision,
          blocking_reasons |-> lists.blocking_reasons,
          required_fixes |-> lists.required_fixes,
          deferral_recommended |-> d.deferral_recommended,
          deferral_to |-> IF d.deferral_recommended THEN Msg("human_review") ELSE NoMessage ]


\* The check ids evaluate_check has a branch for, and ids it has none for.
KnownCheckIds ==
    { "tier1.determinism_required", "tier1.audit_trace_complete", "tier1.no_phi_in_artifacts",
      "tier1.no_outcome_claims_without_validation", "tier2.unit_consistency", "tier2.plausible_ranges",
      "tier2.temporal_coherence", "tier2.outcome_leakage_prevention", "tier3.sql_executes",
      "tier3.cohort_overlap_jaccard" }
UnknownCheckIds == {"tier1.custom_policy", "tier3.row_count_matches", "tier3.SQL_EXECUTES"}


(***************************************************************************)
(* RubricEvaluator.evaluate_tier and RubricEvaluator.evaluate.             *)
(***************************************************************************)
RubricSuite(id, t, version, checks) == [id |-> id, tier |-> t, version |-> version, checks |-> checks]

\* The checks of the suites, suite by suite: the order the two nested loops visit them in.
RECURSIVE ChecksOf(_)
ChecksOf(suites) ==
    IF suites = <<>> THEN <<>> ELSE Head(suites).checks \o ChecksOf(Tail(suites))

NoTierOutcome == [exc |-> "not called", value |-> NoTierResult]

\* As if the loop over the suites ended at the first check that does not pass.
evaluate_tier_stop_at_failure(cat, t, a, c) ==
    LET checks == ChecksOf(cat[t])
        outcomes == [i \in 1..Len(checks) |-> evaluate_check(checks[i], a, c)]
        raising == {i \in 1..Len(checks) : outcomes[i].exc # "none"}
        failing == {i \in 1..Len(checks) : outcomes[i].exc = "none" /\ ~Truthy(outcomes[i].value.passed)}
        last == IF failing = {} THEN Len(checks) ELSE CHOOSE i \in failing : \A j \in failing : i <= j
        all_checks == [i \in 1..last |-> outcomes[i].value]
    IN  IF \E i \in raising : i <= last
        THEN [exc |-> outcomes[CHOOSE i \in raising : \A j \in raising : i <= j].exc, value |-> NoTierResult]
        ELSE Returned(TierResult(t, failing = {}, all_checks))

\* An exception raised by evaluate_check is not caught: it leaves evaluate_tier at
\* the first check that raises.
evaluate_tier(cat, t, a, c) ==
    LET checks == ChecksOf(cat[t])
        outcomes == [i \in 1..Len(checks) |-> evaluate_check(checks[i], a, c)]
        raising == {i \in 1..Len(checks) : outcomes[i].exc # "none"}
        all_checks == [i \in 1..Len(checks) |-> outcomes[i].value]
        tier_passed == \A i \in 1..Len(all_checks) : Truthy(all_checks[i].passed)
    IN  IF raising # {}
        THEN [exc |-> outcomes[CHOOSE i \in raising : \A j \in raising : i <= j].exc, value |-> NoTierResult]
        ELSE Returned(TierResult(t, tier_passed, all_checks))

\* rubric_versions: every suite of a tier writes the key "tier<N>" of its tier, so
\* the key holds the version of the tier's last suite.
TierKey(t) == CASE t = 1 -> "tier1" [] t = 2 -> "tier2" [] t = 3 -> "tier3"
RubricVersions(cat) ==
    {[key |-> TierKey(t), version |-> cat[t][Len(cat[t])].version] : t \in {u \in 1..3 : cat[u] # <<>>}}

NoEvaluationResult == [tier_results |-> NoTierResults, gate_decision |-> NoGateDecision, rubric_versions |-> {}]

evaluate(cat, a, c) ==
    LET outcomes == [t \in 1..3 |-> evaluate_tier(cat, t, a, c)]
        raising == {t \in 1..3 : outcomes[t].exc # "none"}
        trs == [t \in 1..3 |-> [present |-> TRUE, result |-> outcomes[t].value]]
    IN  IF raising # {}
        THEN [exc |-> outcomes[CHOOSE t \in raising : \A u \in raising : t <= u].exc, value |-> NoEvaluationResult]
        ELSE Returned([tier_results |-> trs, gate_decision |-> _compute_gate_decision(trs), rubric_versions |-> RubricVersions(cat)])


(***************************************************************************)
(* Inputs.  The values each key of the artifact and of the context is      *)
(* drawn from: what the tests pass, the absent key, and values of a type   *)
(* the check does not expect.                                              *)
(***************************************************************************)
Executor == PyStr(<<"d","u","c","k","d","b">>)
Version == PyStr(<<"1",".","0">>)
SummaryClean == PyStr(<<"D","e","-","i","d"," ","d","a","t","a">>)
SummaryPhi == PyStr(<<"P","t"," ","S","S","N"," ","7">>)
SummaryMrn == PyStr(<<"m","r","n">>)
TraceId == PyStr(<<"t","1">>)
Years == PyStr(<<"y","r">>)
IndexTime == PyStr(<<"2","0","2","4">>)
ArtifactHash == PyStr(<<"a","b","c","1","2","3">>)

ExecutorValues == {Executor, Absent, PyStr(<<>>)}
VersionValues == {Version, Absent}
SummaryValues == {SummaryClean, SummaryPhi, SummaryMrn, Absent, PyNone, PyInt(42)}

ProvenanceValues ==
    { Provenance("dict", 1, TraceId), Provenance("dict", 1, Absent), Provenance("dict", 1, PyStr(<<>>)),
      Provenance("absent", 0, Absent), Provenance("NoneType", 0, Absent), Provenance("str", 2, Absent) }

WithUnit == Feature("dict", 1, Years)
NoUnit == Feature("dict", 0, Absent)
FeaturesValues ==
    { Features("absent", 0, <<>>), Features("NoneType", 0, <<>>), EmptyFeatures,
      Features("dict", 1, <<[k |-> "age", v |-> WithUnit]>>),
      Features("dict", 2, <<[k |-> "age", v |-> WithUnit], [k |-> "weight", v |-> NoUnit]>>),
      Features("dict", 2, <<[k |-> "age", v |-> NoUnit], [k |-> "weight", v |-> Feature("str", 2, Absent)]>>),
      Features("dict", 2, <<[k |-> "age", v |-> WithUnit], [k |-> "weight", v |-> Feature("str", 2, Absent)]>>),
      Features("dict", 1, <<[k |-> "age", v |-> Feature("NoneType", 0, Absent)]>>),
      Features("list", 1, <<>>), Features("list", 0, <<>>) }

IndexTimeValues == {IndexTime, Absent, PyStr(<<>>)}
LeakageValues == {Absent, PyFalse, PyTrue, PyStr(<<"y">>)}
SqlValues == {PyTrue, PyFalse, Absent, PyNone, PyInt(1), PyInt(0), PyStr(<<"y">>)}
JaccardGrid == {0, 50, 69, 70, 71, 85, 89, 90, 91, 100}
JaccardValues == {PyFloat(h) : h \in JaccardGrid} \cup {Absent, PyNone, PyStr(<<"0",".","9">>), PyTrue, PyInt(1)}

\* The artifact and context of test_evaluate_passing_artifact.
BaseArtifact == [deterministic_executor |-> Executor, version |-> Version, inputs_summary |-> SummaryClean, hash |-> ArtifactHash]
BaseContext ==
    [ provenance |-> Provenance("dict", 1, TraceId),
      features |-> Features("dict", 1, <<[k |-> "age", v |-> WithUnit]>>),
      index_time |-> IndexTime, has_outcome_leakage |-> Absent,
      sql_executed |-> PyTrue, cohort_jaccard |-> PyFloat(85) ]

Artifacts == [deterministic_executor : ExecutorValues, version : VersionValues, inputs_summary : SummaryValues, hash : {ArtifactHash}]

\* Contexts that differ from the base context in one key.
Contexts ==
    {[BaseContext EXCEPT !.provenance = v] : v \in ProvenanceValues}
    \cup {[BaseContext EXCEPT !.features = v] : v \in FeaturesValues}
    \cup {[BaseContext EXCEPT !.index_time = v] : v \in IndexTimeValues}
    \cup {[BaseContext EXCEPT !.has_outcome_leakage = v] : v \in LeakageValues}
    \cup {[BaseContext EXCEPT !.sql_executed = v] : v \in SqlValues}
    \cup {[BaseContext EXCEPT !.cohort_jaccard = v] : v \in JaccardValues}

ScoringValues ==
    { NoScoring, Scoring("dict", 0, Absent), Scoring("dict", 1, Absent),
      Scoring("dict", 1, PyFloat(50)), Scoring("dict", 2, PyFloat(90)), Scoring("dict", 1, PyInt(1)),
      Scoring("dict", 1, PyFloat(0)) }
Checks ==
    {RubricCheck(id, NoScoring) : id \in KnownCheckIds \cup UnknownCheckIds}
    \cup {RubricCheck(id, sc) : id \in {"tier3.cohort_overlap_jaccard", "tier3.row_count_matches"}, sc \in ScoringValues}

(***************************************************************************)
(* SpecCheck: one call of evaluate_check on a check, an artifact and a     *)
(* context.                                                                *)
(***************************************************************************)
InitCheck ==
    /\ check \in Checks
    /\ \E in \in (Artifacts \X {BaseContext}) \cup ({BaseArtifact} \X Contexts) :
          artifact = in[1] /\ context = in[2]
    /\ rubrics_by_tier = NoCatalog
    /\ check_out = RaisedCheck("not called")
    /\ tier = 0
    /\ tier_out = NoTierOutcome
    /\ tier_results = NoTierResults
    /\ gate_decision = NoGateDecision
    /\ results = <<>>
    /\ pc = "init"
    /\ IdleServices

EvaluateCheck ==
    /\ pc = "init"
    /\ check # NoCheck
    /\ check_out' = evaluate_check(check, artifact, context)
    /\ pc' = "evaluate_check"
    /\ UNCHANGED <<rubrics_by_tier, artifact, context, check, tier, tier_out, tier_results, gate_decision, results>>
    /\ UNCHANGED serviceVars

SpecCheck == InitCheck /\ [][EvaluateCheck]_vars

(***************************************************************************)
(* SpecGate: one call of _compute_gate_decision on a tier -> TierResult    *)
(* mapping.  The mapping may lack a tier, a TierResult's passed flag is    *)
(* any boolean, and the three tiers hold at most MaxChecks CheckResults in *)
(* all; the i-th check of a tier has the i-th id of CheckIdList.           *)
(***************************************************************************)
CheckIdList ==
    << "tier1.determinism_required", "tier1.audit_trace_complete", "tier2.unit_consistency",
       "tier3.sql_executes", "tier3.cohort_overlap_jaccard", "tier1.custom_policy" >>

GateCheckResults(id) ==
    { CheckResult(id, PyTrue, PyNone, PyNone, MsgId("note {}", id)),
      CheckResult(id, PyFalse, PyNone, PyNone, NoMessage),
      CheckResult(id, PyFalse, PyNone, PyNone, Msg("")),
      CheckResult(id, PyFalse, PyNone, PyNone, MsgId("fix {}", id)),
      CheckResult(id, PyStr(<<"y">>), PyNone, PyNone, NoMessage),
      CheckResult(id, PyInt(0), PyNone, PyNone, MsgId("fix {}", id)) }

RECURSIVE GateCheckLists(_)
GateCheckLists(n) ==
    IF n = 0 THEN {<<>>}
    ELSE {Append(cs, c) : cs \in GateCheckLists(n - 1), c \in GateCheckResults(CheckIdList[n])}

GateTierInputs(t, n) ==
    {[present |-> TRUE, result |-> TierResult(t, p, cs)] : p \in BOOLEAN, cs \in GateCheckLists(n)}
    \cup (IF n = 0 THEN {[present |-> FALSE, result |-> NoTierResult]} ELSE {})

GateSizes == {m \in [1..3 -> 0..MaxChecks] : m[1] + m[2] + m[3] <= MaxChecks}

InitGate ==
    /\ \E n \in GateSizes :
          \E r1 \in GateTierInputs(1, n[1]), r2 \in GateTierInputs(2, n[2]), r3 \in GateTierInputs(3, n[3]) :
              tier_results = <<r1, r2, r3>>
    /\ rubrics_by_tier = NoCatalog
    /\ artifact = BaseArtifact
    /\ context = BaseContext
    /\ check = NoCheck
    /\ check_out = RaisedCheck("not called")
    /\ tier = 0
    /\ tier_out = NoTierOutcome
    /\ gate_decision = NoGateDecision
    /\ results = <<>>
    /\ pc = "init"
    /\ IdleServices

ComputeGateDecision ==
    /\ pc = "init"
    /\ gate_decision' = _compute_gate_decision(tier_results)
    /\ pc' = "_compute_gate_decision"
    /\ UNCHANGED <<rubrics_by_tier, artifact, context, check, check_out, tier, tier_out, tier_results, results>>
    /\ UNCHANGED serviceVars

SpecGate == InitGate /\ [][ComputeGateDecision]_vars

(***************************************************************************)
(* The catalog an evaluator holds after construction: for each tier the    *)
(* suites load_all_rubrics found for it, in any order.                     *)
(***************************************************************************)
Constitution ==
    RubricSuite("tier1.constitution", 1, "1.0.0",
        << RubricCheck("tier1.determinism_required", NoScoring), RubricCheck("tier1.audit_trace_complete", NoScoring),
           RubricCheck("tier1.no_phi_in_artifacts", NoScoring), RubricCheck("tier1.no_outcome_claims_without_validation", NoScoring) >>)
SitePolicy == RubricSuite("tier1.site_policy", 1, "0.2.0", <<RubricCheck("tier1.custom_policy", NoScoring)>>)
ClinicalInvariants ==
    RubricSuite("tier2.clinical_invariants", 2, "1.1.0",
        << RubricCheck("tier2.unit_consistency", NoScoring), RubricCheck("tier2.plausible_ranges", NoScoring),
           RubricCheck("tier2.temporal_coherence", NoScoring), RubricCheck("tier2.outcome_leakage_prevention", NoScoring) >>)
Placeholder == RubricSuite("tier2.placeholder", 2, "0.1.0", <<>>)
TaskBenchmarks ==
    RubricSuite("tier3.task_benchmarks", 3, "1.0.0",
        << RubricCheck("tier3.sql_executes", NoScoring), RubricCheck("tier3.cohort_overlap_jaccard", NoScoring) >>)
StrictOverlap ==
    RubricSuite("tier3.strict_overlap", 3, "2.0.0",
        << RubricCheck("tier3.row_count_matches", NoScoring),
           RubricCheck("tier3.cohort_overlap_jaccard", Scoring("dict", 1, PyFloat(90))) >>)

SuiteLibrary == <<{Constitution, SitePolicy}, {ClinicalInvariants, Placeholder}, {TaskBenchmarks, StrictOverlap}>>

\* The orderings of the subsets of a set of suites.
Orderings(S) ==
    UNION {{q \in [1..n -> S] : \A i, j \in 1..n : i # j => q[i] # q[j]} : n \in 0..Cardinality(S)}

EvalArtifacts ==
    { BaseArtifact, [BaseArtifact EXCEPT !.deterministic_executor = Absent], [BaseArtifact EXCEPT !.inputs_summary = PyNone] }
EvalContexts ==
    { [BaseContext EXCEPT !.provenance = p, !.features = f, !.sql_executed = q, !.cohort_jaccard = j] :
        p \in {Provenance("dict", 1, TraceId), Provenance("absent", 0, Absent)},
        f \in { Features("dict", 1, <<[k |-> "age", v |-> WithUnit]>>),
                Features("dict", 2, <<[k |-> "age", v |-> WithUnit], [k |-> "weight", v |-> NoUnit]>>),
                Features("dict", 2, <<[k |-> "age", v |-> WithUnit], [k |-> "weight", v |-> Feature("str", 2, Absent)]>>) },
        q \in {PyTrue, Absent, PyStr(<<"y">>)},
        j \in {PyFloat(85), PyFloat(50), PyNone} }

InitEvaluator ==
    /\ \E s1 \in Orderings(SuiteLibrary[1]), s2 \in Orderings(SuiteLibrary[2]), s3 \in Orderings(SuiteLibrary[3]) :
          rubrics_by_tier = <<s1, s2, s3>>
    /\ artifact \in EvalArtifacts
    /\ context \in EvalContexts
    /\ check = NoCheck
    /\ check_out = RaisedCheck("not called")
    /\ tier = 0
    /\ tier_out = NoTierOutcome
    /\ tier_results = NoTierResults
    /\ gate_decision = NoGateDecision
    /\ results = <<>>
    /\ pc = "init"
    /\ IdleServices

(***************************************************************************)
(* SpecTier: one call of evaluate_tier on an evaluator.                    *)
(***************************************************************************)
EvaluateTier(t) ==
    /\ pc = "init"
    /\ tier' = t
    /\ tier_out' = evaluate_tier(rubrics_by_tier, t, artifact, context)
    /\ pc' = "evaluate_tier"
    /\ UNCHANGED <<rubrics_by_tier, artifact, context, check, check_out, tier_results, gate_decision, results>>
    /\ UNCHANGED serviceVars

NextTier == \E t \in 1..3 : EvaluateTier(t)

SpecTier == InitEvaluator /\ [][NextTier]_vars

(***************************************************************************)
(* Spec: calls of evaluate, one after the other, on one evaluator with the *)
(* same artifact and context.                                              *)
(***************************************************************************)
\* As if evaluate popped the suites it visits off the evaluator's lists.
EvaluateConsumingCatalog ==
    /\ Len(results) < MaxCalls
    /\ results' = Append(results, evaluate(rubrics_by_tier, artifact, context))
    /\ rubrics_by_tier' = [t \in 1..3 |-> IF rubrics_by_tier[t] = <<>> THEN <<>> ELSE Tail(rubrics_by_tier[t])]
    /\ pc' = "evaluate"
    /\ UNCHANGED <<artifact, context, check, check_out, tier, tier_out, tier_results, gate_decision>>
    /\ UNCHANGED serviceVars

Evaluate ==
    /\ Len(results) < MaxCalls
    /\ results' = Append(results, evaluate(rubrics_by_tier, artifact, context))
    /\ pc' = "evaluate"
    /\ UNCHANGED <<rubrics_by_tier, artifact, context, check, check_out, tier, tier_out, tier_results, gate_decision>>
    /\ UNCHANGED serviceVars

Next == Evaluate

Spec == InitEvaluator /\ [][Next]_vars


(***************************************************************************)
(* Claims about _compute_gate_decision, checked under SpecGate.            *)
(***************************************************************************)
GateCalled == pc = "_compute_gate_decision"
ResultFails(t) == tier_results[t].present /\ ~tier_results[t].result.passed
ResultPasses(t) == tier_results[t].present /\ tier_results[t].result.passed

\* C1: whatever the tier-2 and tier-3 results are, a tier-1 result with passed = false
\* gives the decision block, with deferral recommended, to human_review.
C1_Tier1FailureBlocks ==
    (GateCalled /\ ResultFails(1)) =>
        /\ gate_decision.decision = "block"
        /\ gate_decision.deferral_recommended = TRUE
        /\ gate_decision.deferral_to = Msg("human_review")

C1_Witness ==
    /\ GateCalled /\ ResultFails(1) /\ ResultPasses(2) /\ ResultFails(3)
    /\ gate_decision.decision = "block"

\* C2: tier-1 and tier-2 results that pass and a tier-3 result that fails give the
\* decision revise, never block or approve, with no deferral recommended.
C2_Tier3FailureRevises ==
    (GateCalled /\ ResultPasses(1) /\ ResultPasses(2) /\ ResultFails(3)) =>
        /\ gate_decision.decision = "revise"
        /\ gate_decision.deferral_recommended = FALSE

C2_Witness ==
    /\ GateCalled /\ ResultPasses(1) /\ ResultPasses(2) /\ ResultFails(3)
    /\ Len(tier_results[3].result.checks) > 0
    /\ gate_decision.decision = "revise"

FailingAt ==
    {p \in (1..3) \X (1..MaxChecks) :
        /\ tier_results[p[1]].present
        /\ p[2] <= Len(tier_results[p[1]].result.checks)
        /\ ~Truthy(tier_results[p[1]].result.checks[p[2]].passed)}
FailingWithMessageAt ==
    {p \in FailingAt : LET m == tier_results[p[1]].result.checks[p[2]].message IN m.t = "str" /\ m.text # ""}
Before(p, q) == p[1] < q[1] \/ (p[1] = q[1] /\ p[2] < q[2])
RankIn(S, p) == 1 + Cardinality({q \in S : Before(q, p)})
PassedIsAndOfChecks ==
    \A t \in 1..3 : tier_results[t].present =>
        (tier_results[t].result.passed <=>
            \A i \in 1..Len(tier_results[t].result.checks) : Truthy(tier_results[t].result.checks[i].passed))
ReasonText(t) == IF t = 1 THEN "Tier 1 violation: {}" ELSE IF t = 2 THEN "Tier 2 violation: {}" ELSE "Tier 3 violation: {}"

\* C5: when each tier result's passed flag is the AND of its checks, blocking_reasons
\* holds exactly one "Tier N violation: <check_id>" per failing check of tiers 1, 2 and
\* 3, ordered by tier and then by check order, and required_fixes holds the non-empty
\* messages of those failing checks in the same order.
C5_ReasonsCoverEveryFailingCheck ==
    (GateCalled /\ PassedIsAndOfChecks) =>
        /\ Len(gate_decision.blocking_reasons) = Cardinality(FailingAt)
        /\ \A p \in FailingAt :
              gate_decision.blocking_reasons[RankIn(FailingAt, p)]
                  = [t |-> "str", text |-> ReasonText(p[1]), id |-> tier_results[p[1]].result.checks[p[2]].id, args |-> <<>>]
        /\ Len(gate_decision.required_fixes) = Cardinality(FailingWithMessageAt)
        /\ \A p \in FailingWithMessageAt :
              gate_decision.required_fixes[RankIn(FailingWithMessageAt, p)]
                  = tier_results[p[1]].result.checks[p[2]].message

C5_Witness ==
    /\ GateCalled /\ PassedIsAndOfChecks
    /\ ResultFails(1) /\ ResultFails(3)
    /\ Len(gate_decision.blocking_reasons) = 3
    /\ Len(gate_decision.required_fixes) = 2
    /\ gate_decision.blocking_reasons[3].text = "Tier 3 violation: {}"

(***************************************************************************)
(* Claims about evaluate_check, checked under SpecCheck.                   *)
(***************************************************************************)
CheckCalled == pc = "evaluate_check"

\* C6: no check may throw: for every check id, artifact and context, values of an
\* unexpected type included, evaluate_check returns a CheckResult instead of raising.
C6_NoCheckThrows ==
    CheckCalled => check_out.exc = "none"

\* The metric and the threshold tier3.cohort_overlap_jaccard is said to compare, in
\* hundredths: an absent cohort_jaccard counts as 0, an unspecified threshold as 0.7.
JaccardCase ==
    /\ CheckCalled
    /\ check.id = "tier3.cohort_overlap_jaccard"
    /\ context.cohort_jaccard.t \in {"absent", "float", "int", "bool"}
ClaimedMetric == IF context.cohort_jaccard.t = "absent" THEN 0 ELSE context.cohort_jaccard.n
ClaimedThreshold ==
    IF check.scoring.t = "dict" /\ check.scoring.threshold.t # "absent" THEN check.scoring.threshold.n ELSE 70

\* C10: for tier3.cohort_overlap_jaccard, passed is true if and only if the context's
\* cohort_jaccard (0 when absent) is at least the threshold (scoring.threshold when
\* specified, 0.7 otherwise), and the result carries the metric as score and the
\* threshold, over the grid of hundredths.
C10_JaccardThreshold ==
    JaccardCase =>
        /\ check_out.exc = "none"
        /\ check_out.value.passed = (IF ClaimedMetric >= ClaimedThreshold THEN PyTrue ELSE PyFalse)
        /\ check_out.value.score.t \in {"float", "int", "bool"}
        /\ check_out.value.score.n = ClaimedMetric
        /\ check_out.value.threshold.t \in {"float", "int"}
        /\ check_out.value.threshold.n = ClaimedThreshold

C10_Witness ==
    /\ JaccardCase
    /\ context.cohort_jaccard = PyFloat(70)
    /\ check.scoring = NoScoring
    /\ check_out.value.passed = PyTrue
    /\ check_out.value.threshold = PyFloat(70)

(***************************************************************************)
(* Claims about evaluate_tier, checked under SpecTier.                     *)
(***************************************************************************)
TierReturned == pc = "evaluate_tier" /\ tier_out.exc = "none"
TierChecks == ChecksOf(rubrics_by_tier[tier])

\* C7: a check whose id evaluate_check has no branch for yields passed = true and
\* the message that the check is unknown and defaults to pass, and never makes its
\* tier fail: a tier that fails holds a failing check with a known id.
C7_UnknownCheckPasses ==
    TierReturned =>
        /\ \A i \in 1..Len(TierChecks) : TierChecks[i].id \notin KnownCheckIds =>
              /\ i <= Len(tier_out.value.checks)
              /\ tier_out.value.checks[i].id = TierChecks[i].id
              /\ tier_out.value.checks[i].passed = PyTrue
              /\ tier_out.value.checks[i].message
                    = [t |-> "str", text |-> "Unknown check {} - defaulting to pass", id |-> TierChecks[i].id, args |-> <<>>]
        /\ ~tier_out.value.passed =>
              \E i \in 1..Len(tier_out.value.checks) :
                  tier_out.value.checks[i].id \in KnownCheckIds /\ ~Truthy(tier_out.value.checks[i].passed)

C7_Witness ==
    /\ TierReturned
    /\ TierChecks # <<>>
    /\ \A i \in 1..Len(TierChecks) : TierChecks[i].id \notin KnownCheckIds
    /\ tier_out.value.passed

\* The position, in the tier's list of results, of check ci of suite si.
RECURSIVE ChecksBefore(_, _)
ChecksBefore(suites, si) == IF si = 1 THEN 0 ELSE Len(suites[si - 1].checks) + ChecksBefore(suites, si - 1)
RECURSIVE TotalChecks(_)
TotalChecks(suites) == IF suites = <<>> THEN 0 ELSE Len(Head(suites).checks) + TotalChecks(Tail(suites))

\* C8: evaluate_tier(t) returns one CheckResult per check of every suite of tier t,
\* in suite order then check order, and TierResult.passed is true if and only if
\* every one of them passed; a tier with no suites or no checks passes.
C8_TierIsAndOfChecks ==
    TierReturned =>
        LET suites == rubrics_by_tier[tier]
            got == tier_out.value
        IN  /\ got.tier = tier
            /\ Len(got.checks) = TotalChecks(suites)
            /\ \A si \in 1..Len(suites) : \A ci \in 1..Len(suites[si].checks) :
                  LET r == got.checks[ChecksBefore(suites, si) + ci]
                  IN  /\ r.id = suites[si].checks[ci].id
                      /\ Returned(r) = evaluate_check(suites[si].checks[ci], artifact, context)
            /\ got.passed <=> \A i \in 1..Len(got.checks) : Truthy(got.checks[i].passed)
            /\ TotalChecks(suites) = 0 => got.passed

C8_Witness ==
    /\ TierReturned
    /\ Len(rubrics_by_tier[tier]) = 2
    /\ Len(tier_out.value.checks) = 4
    /\ ~tier_out.value.passed
    /\ Truthy(tier_out.value.checks[1].passed)
    /\ ~Truthy(tier_out.value.checks[2].passed)
    /\ Truthy(tier_out.value.checks[3].passed)

AllSuites(cat) == cat[1] \o cat[2] \o cat[3]
get_rubric_versions(cat) ==
    LET suites == AllSuites(cat)
        last(i) == \A j \in (i + 1)..Len(suites) : suites[j].id # suites[i].id
    IN  {[key |-> suites[i].id, version |-> suites[i].version] : i \in {j \in 1..Len(suites) : last(j)}}

(***************************************************************************)
(* Claims about rubric_versions, checked under Spec.                       *)
(***************************************************************************)
\* C12: the rubric_versions map evaluate returns holds one entry per loaded suite,
\* keyed by the suite's id, and so equals get_rubric_versions over the same catalog.
C12_VersionsKeyedBySuiteId ==
    \A i \in 1..Len(results) :
        results[i].exc = "none" => results[i].value.rubric_versions = get_rubric_versions(rubrics_by_tier)

(***************************************************************************)
(* Certificates.  A mapping with keys of the caller's choice is the set of *)
(* its items [k, v, m]: v is the value under key k and m the entries of a  *)
(* value that is itself a mapping.  A JSON document is a record of its     *)
(* members and the set `keys` of the top-level keys it holds.              *)
(***************************************************************************)
Item(k, v, m) == [k |-> k, v |-> v, m |-> m]
PyDict(len) == [t |-> "dict", n |-> len, s |-> <<>>]
KeysOf(d) == {i.k : i \in d}
ValueOf(d, k) == CHOOSE i \in d : i.k = k
\* {**d, **e}: a key of e replaces the same key of d.
DictMerge(d, e) == {i \in d : i.k \notin KeysOf(e)} \cup e

AbsentMessage == [t |-> "absent", text |-> "", id |-> "", args |-> <<>>]

\* TierResult.to_dict: score and threshold are left out when None, message when falsy.
CheckToDict(c) ==
    [ id |-> c.id, pass |-> c.passed,
      score |-> IF c.score = PyNone THEN Absent ELSE c.score,
      threshold |-> IF c.threshold = PyNone THEN Absent ELSE c.threshold,
      message |-> IF MessageTruthy(c.message) THEN c.message ELSE AbsentMessage ]
TierResult_to_dict(tr) ==
    [pass |-> PyBool(tr.passed), checks |-> [i \in 1..Len(tr.checks) |-> CheckToDict(tr.checks[i])]]
EmptyTierDict == [pass |-> PyTrue, checks |-> <<>>]

\* As if the deferral target were written as stored, None included.
GateDecision_to_dict_raw(g) ==
    [ decision |-> g.decision, blocking_reasons |-> g.blocking_reasons, required_fixes |-> g.required_fixes,
      deferral |-> [recommended |-> g.deferral_recommended, to |-> g.deferral_to] ]

\* GateDecision.to_dict: deferral.to is deferral_to or "human_review".
GateDecision_to_dict(g) ==
    [ decision |-> g.decision, blocking_reasons |-> g.blocking_reasons, required_fixes |-> g.required_fixes,
      deferral |-> [ recommended |-> g.deferral_recommended,
                     to |-> IF MessageTruthy(g.deferral_to) THEN g.deferral_to ELSE Msg("human_review") ] ]

TopLevelKeys == {"certificate_id", "created_at", "artifact", "rubrics", "gate_decision", "provenance"}
TraceOf(certificate_id) == PyStr(<<"trace_", certificate_id>>)
ManifestOf(certificate_id) == PyStr(<<"manifest_", certificate_id>>)

\* The provenance block: the three keys the function writes, then the caller's other
\* keys spread over them.
ProvenanceBlock(evaluation, prov, certificate_id) ==
    DictMerge({ IF "audit_trace_id" \in KeysOf(prov) THEN ValueOf(prov, "audit_trace_id")
                    ELSE Item("audit_trace_id", TraceOf(certificate_id), {}),
                IF "run_manifest_id" \in KeysOf(prov) THEN ValueOf(prov, "run_manifest_id")
                    ELSE Item("run_manifest_id", ManifestOf(certificate_id), {}),
                Item("rubric_versions", PyDict(Cardinality(evaluation.rubric_versions)), evaluation.rubric_versions) },
              {i \in prov : i.k \notin {"audit_trace_id", "run_manifest_id"}})

create_certificate(a, evaluation, prov, certificate_id, now) ==
    [ keys |-> TopLevelKeys,
      certificate_id |-> PyStr(<<certificate_id>>),
      created_at |-> PyStr(<<now>>),
      artifact |-> a,
      rubrics |-> [t \in 1..3 |-> IF evaluation.tier_results[t].present
                                  THEN TierResult_to_dict(evaluation.tier_results[t].result) ELSE EmptyTierDict],
      gate_decision |-> GateDecision_to_dict(evaluation.gate_decision),
      provenance |-> ProvenanceBlock(evaluation, prov, certificate_id) ]

(***************************************************************************)
(* The certificate schema (schemas/certificate.schema.json), as the wire   *)
(* contract describes it: the six top-level members are required,          *)
(* certificate_id and created_at are strings, each rubrics.tier_N.pass is  *)
(* a boolean, gate_decision.decision is approve, revise or block, and      *)
(* gate_decision.deferral.to is a string.  A schema error is the path of   *)
(* the offending member and a message.                                     *)
(***************************************************************************)
SchemaError(path, message) == [path |-> path, message |-> message]
RubricsKey(t) == CASE t = 1 -> "tier_1" [] t = 2 -> "tier_2" [] t = 3 -> "tier_3"
Decisions == {"approve", "revise", "block"}
SchemaErrorSet(doc) ==
    {SchemaError(<<>>, k) : k \in TopLevelKeys \ doc.keys}
    \cup {SchemaError(<<k>>, "is not of type 'string'") :
            k \in {j \in {"certificate_id", "created_at"} \cap doc.keys :
                     (IF j = "certificate_id" THEN doc.certificate_id ELSE doc.created_at).t # "str"}}
    \cup {SchemaError(<<"rubrics", RubricsKey(t), "pass">>, "is not of type 'boolean'") :
            t \in {u \in 1..3 : "rubrics" \in doc.keys /\ doc.rubrics[u].pass.t # "bool"}}
    \cup {SchemaError(<<"gate_decision", "decision">>, "is not one of ['approve', 'revise', 'block']") :
            x \in {y \in {1} : "gate_decision" \in doc.keys /\ doc.gate_decision.decision \notin Decisions}}
    \cup {SchemaError(<<"gate_decision", "deferral", "to">>, "is not of type 'string'") :
            x \in {y \in {1} : "gate_decision" \in doc.keys /\ doc.gate_decision.deferral.to.t # "str"}}

\* The orders validator.iter_errors may yield the errors in.
IterErrors(doc) ==
    LET E == SchemaErrorSet(doc)
        n == Cardinality(E)
    IN  {q \in [1..n -> E] : \A i, j \in 1..n : i # j => q[i] # q[j]}

(***************************************************************************)
(* verify.py.  sorted(..., key=list(absolute_path)) compares paths member  *)
(* by member, a proper prefix first; the sort is stable.                   *)
(***************************************************************************)
\* The path members of the schema, in the order str comparison puts them.
PathMembers ==
    << "artifact", "certificate_id", "created_at", "decision", "deferral", "gate_decision", "pass",
       "provenance", "rubrics", "tier_1", "tier_2", "tier_3", "to" >>
MemberRank(m) == CHOOSE i \in 1..Len(PathMembers) : PathMembers[i] = m

RECURSIVE PathLess(_, _)
PathLess(p, q) ==
    IF q = <<>> THEN FALSE
    ELSE IF p = <<>> THEN TRUE
    ELSE IF Head(p) = Head(q) THEN PathLess(Tail(p), Tail(q))
    ELSE MemberRank(Head(p)) < MemberRank(Head(q))

\* Insert e behind the members of a sorted list that do not come after it.
RECURSIVE InsertByPath(_, _)
InsertByPath(e, sorted) ==
    IF sorted = <<>> THEN <<e>>
    ELSE IF PathLess(e.path, Head(sorted).path) THEN <<e>> \o sorted
    ELSE <<Head(sorted)>> \o InsertByPath(e, Tail(sorted))

RECURSIVE SortedByPath(_)
SortedByPath(errs) ==
    IF errs = <<>> THEN <<>>
    ELSE InsertByPath(errs[Len(errs)], SortedByPath(SubSeq(errs, 1, Len(errs) - 1)))

\* An error string of a VerifyResult: its fixed text and what is formatted into it.
ErrorString(text, location, message, digest) ==
    [text |-> text, location |-> location, message |-> message, digest |-> digest]
SchemaErrorString(e) ==
    ErrorString("{location}: {message}", IF e.path = <<>> THEN <<"<root>">> ELSE e.path, e.message, PyNone)
HashMissing ==
    ErrorString("artifact.hash missing from certificate (required for --artifact verification)", <<>>, "", PyNone)
HashMismatch == ErrorString("artifact hash mismatch", <<>>, "", PyNone)
ExpectedHash(h) == ErrorString("expected: {expected_hash}", <<>>, "", h)
ActualHash(h) == ErrorString("actual:   {actual_hash}", <<>>, "", h)
NotAnObject == ErrorString("certificate JSON must be an object", <<>>, "", PyNone)

VerifyResult(is_valid, errors) == [is_valid |-> is_valid, errors |-> errors]
NoVerifyResult == VerifyResult(FALSE, <<>>)

\* What a path of the file system holds: nothing, a file that cannot be opened, or a
\* file with its content; a content is a number, the JSON text of a document is the
\* document.
MissingFile == [state |-> "missing", content |-> 0]
UnreadableFile == [state |-> "unreadable", content |-> 0]
File(content) == [state |-> "file", content |-> content]

\* hashlib.sha256(...).hexdigest() of the contents the model uses.
HexDigests == <<"9f86d081", "60303ae2", "fd61a03a">>
Sha256Hex(content) == PyStr(<<HexDigests[content]>>)

\* _sha256_file: open() raises where there is no file or the file cannot be read.
_sha256_file(file) ==
    CASE file.state = "missing" -> [exc |-> "FileNotFoundError", value |-> PyNone]
      [] file.state = "unreadable" -> [exc |-> "PermissionError", value |-> PyNone]
      [] OTHER -> Returned(Sha256Hex(file.content))

\* As if the hash step asked only for a hash in the certificate and a file to read.
VerifyHashPresenceOnly(doc, file) ==
    LET expected_hash == Get(doc.artifact.hash, PyNone)
        actual == _sha256_file(file)
    IN  IF expected_hash.t # "str" \/ ~Truthy(expected_hash)
        THEN [exc |-> "none", value |-> VerifyResult(FALSE, <<HashMissing>>), reads |-> 0]
        ELSE IF actual.exc # "none"
        THEN [exc |-> actual.exc, value |-> NoVerifyResult, reads |-> 1]
        ELSE [exc |-> "none", value |-> VerifyResult(TRUE, <<>>), reads |-> 1]

\* The hash step of verify_certificate; reads counts the calls of _sha256_file.
VerifyHash(doc, file) ==
    LET expected_hash == Get(doc.artifact.hash, PyNone)
        actual == _sha256_file(file)
    IN  IF expected_hash.t # "str" \/ ~Truthy(expected_hash)
        THEN [exc |-> "none", value |-> VerifyResult(FALSE, <<HashMissing>>), reads |-> 0]
        ELSE IF actual.exc # "none"
        THEN [exc |-> actual.exc, value |-> NoVerifyResult, reads |-> 1]
        ELSE IF actual.value # expected_hash
        THEN [ exc |-> "none", reads |-> 1,
               value |-> VerifyResult(FALSE, <<HashMismatch, ExpectedHash(expected_hash), ActualHash(actual.value)>>) ]
        ELSE [exc |-> "none", value |-> VerifyResult(TRUE, <<>>), reads |-> 1]

\* As if the hash step ran before the schema errors were looked at.
verify_certificate_hash_first(doc, iter_errors, path, file) ==
    LET schema_errors == SortedByPath(iter_errors)
        errors == [i \in 1..Len(schema_errors) |-> SchemaErrorString(schema_errors[i])]
        hashed == VerifyHash(doc, file)
    IN  IF path # PyNone /\ "artifact" \in doc.keys /\ (hashed.exc # "none" \/ ~hashed.value.is_valid) THEN hashed
        ELSE IF errors # <<>> THEN [exc |-> "none", value |-> VerifyResult(FALSE, errors), reads |-> 0]
        ELSE [exc |-> "none", value |-> VerifyResult(TRUE, <<>>), reads |-> 0]

verify_certificate(doc, iter_errors, path, file) ==
    LET schema_errors == SortedByPath(iter_errors)
        errors == [i \in 1..Len(schema_errors) |-> SchemaErrorString(schema_errors[i])]
    IN  IF errors # <<>> THEN [exc |-> "none", value |-> VerifyResult(FALSE, errors), reads |-> 0]
        ELSE IF path # PyNone THEN VerifyHash(doc, file)
        ELSE [exc |-> "none", value |-> VerifyResult(TRUE, <<>>), reads |-> 0]

\* _read_json: read_text raises where there is no file, json.loads on text that is
\* not JSON; the JSON text of an array is the content 0.
InvalidJson == [state |-> "file", content |-> -1]
JsonArray == [state |-> "file", content |-> 0]
_read_json(file) ==
    CASE file.state = "missing" -> [exc |-> "FileNotFoundError", value |-> "none"]
      [] file.state = "unreadable" -> [exc |-> "PermissionError", value |-> "none"]
      [] file = InvalidJson -> [exc |-> "JSONDecodeError", value |-> "none"]
      [] file = JsonArray -> Returned("list")
      [] OTHER -> Returned("dict")

\* verify_certificate_file: doc is the document the certificate file holds.
verify_certificate_file(cert_file, doc, iter_errors, path, file) ==
    LET read == _read_json(cert_file)
    IN  IF read.exc # "none" THEN [exc |-> read.exc, value |-> NoVerifyResult, reads |-> 0]
        ELSE IF read.value # "dict" THEN [exc |-> "none", value |-> VerifyResult(FALSE, <<NotAnObject>>), reads |-> 0]
        ELSE verify_certificate(doc, iter_errors, path, file)

(***************************************************************************)
(* SpecCert: evaluate, then create_certificate on what it returned, then   *)
(* verify_certificate on the certificate, without an artifact path.        *)
(***************************************************************************)
CertCatalogs ==
    { <<<<Constitution>>, <<ClinicalInvariants>>, <<TaskBenchmarks>>>>,
      <<<<Constitution, SitePolicy>>, <<>>, <<TaskBenchmarks, StrictOverlap>>>>,
      NoCatalog }
CertContexts == {c \in EvalContexts : c.features = BaseContext.features}

\* The provenance mappings a caller hands over: each key absent or present.
StaleVersions == {[key |-> "tier1", version |-> "0.0.1"]}
ProvenanceMaps ==
    { a \cup r \cup v \cup d :
        a \in {{}, {Item("audit_trace_id", TraceId, {})}, {Item("audit_trace_id", PyNone, {})}},
        r \in {{}, {Item("run_manifest_id", PyStr(<<"m","1">>), {})}},
        v \in {{}, {Item("rubric_versions", PyStr(<<"v","0">>), {})}, {Item("rubric_versions", PyDict(1), StaleVersions)}},
        d \in {{}, {Item("dataset_hash", PyStr(<<"r","0","0","t">>), {})}} }

\* The values uuid.uuid4() and datetime.now() may give.
CertificateIds == {"uuid-1", "uuid-2"}
Now == "2026-01-01T00:00:00+00:00"

InitCertificate ==
    /\ rubrics_by_tier \in CertCatalogs
    /\ artifact \in EvalArtifacts
    /\ context \in CertContexts
    /\ provenance_in \in ProvenanceMaps
    /\ check = NoCheck
    /\ check_out = RaisedCheck("not called")
    /\ tier = 0
    /\ tier_out = NoTierOutcome
    /\ tier_results = NoTierResults
    /\ gate_decision = NoGateDecision
    /\ results = <<>>
    /\ pc = "init"
    /\ certificate = NotCalled
    /\ artifact_path = PyNone
    /\ artifact_file = MissingFile
    /\ certificate_file = MissingFile
    /\ file_reads = 0
    /\ verify_out = NotCalled
    /\ IdleConcurrency /\ IdleMerkle /\ IdleManifest /\ IdleTools

CreateCertificate ==
    /\ certificate = NotCalled
    /\ results # <<>>
    /\ results[Len(results)].exc = "none"
    /\ \E certificate_id \in CertificateIds :
          certificate' = Returned(create_certificate(artifact, results[Len(results)].value, provenance_in, certificate_id, Now))
    /\ pc' = "create_certificate"
    /\ UNCHANGED <<rubrics_by_tier, artifact, context, check, check_out, tier, tier_out, tier_results, gate_decision, results>>
    /\ UNCHANGED <<provenance_in, verifyVars, concurrencyVars, merkleVars, manifestVars, toolVars>>

\* verify_certificate(certificate, artifact_path) on the document in `certificate`.
VerifyCertificate ==
    /\ certificate # NotCalled
    /\ verify_out = NotCalled
    /\ \E iter_errors \in IterErrors(certificate.value) :
          LET out == verify_certificate(certificate.value, iter_errors, artifact_path, artifact_file)
          IN  /\ verify_out' = [exc |-> out.exc, value |-> out.value]
              /\ file_reads' = file_reads + out.reads
    /\ pc' = "verify_certificate"
    /\ UNCHANGED <<rubrics_by_tier, artifact, context, check, check_out, tier, tier_out, tier_results, gate_decision, results>>
    /\ UNCHANGED <<certificateVars, artifact_path, artifact_file, certificate_file, concurrencyVars, merkleVars, manifestVars, toolVars>>

NextCert == Evaluate \/ CreateCertificate \/ VerifyCertificate

SpecCert == InitCertificate /\ [][NextCert]_vars

(***************************************************************************)
(* Claims about create_certificate, checked under SpecCert.                *)
(***************************************************************************)
CertificateCreated == certificate # NotCalled /\ results # <<>>
CreatedId == certificate.value.certificate_id.s[1]

\* C11: whatever provenance mapping the caller hands over, the certificate's
\* provenance block holds audit_trace_id and run_manifest_id (the caller's values
\* where supplied, else values made from the certificate id), holds rubric_versions
\* equal to the evaluation's map, and holds every other key of the caller unchanged.
C11_ProvenanceBlock ==
    CertificateCreated =>
        LET block == certificate.value.provenance
            supplied(k) == k \in KeysOf(provenance_in)
        IN  /\ {"audit_trace_id", "run_manifest_id", "rubric_versions"} \subseteq KeysOf(block)
            /\ ValueOf(block, "audit_trace_id") =
                  IF supplied("audit_trace_id") THEN ValueOf(provenance_in, "audit_trace_id")
                  ELSE Item("audit_trace_id", TraceOf(CreatedId), {})
            /\ ValueOf(block, "run_manifest_id") =
                  IF supplied("run_manifest_id") THEN ValueOf(provenance_in, "run_manifest_id")
                  ELSE Item("run_manifest_id", ManifestOf(CreatedId), {})
            /\ ValueOf(block, "rubric_versions").v.t = "dict"
            /\ ValueOf(block, "rubric_versions").m = results[1].value.rubric_versions
            /\ \A i \in provenance_in :
                  i.k \notin {"audit_trace_id", "run_manifest_id", "rubric_versions"} => i \in block

HashedArtifact(h) == [BaseArtifact EXCEPT !.hash = h]
ValidCertificate ==
    create_certificate(HashedArtifact(Sha256Hex(1)),
                       evaluate(<<<<Constitution>>, <<ClinicalInvariants>>, <<TaskBenchmarks>>>>, BaseArtifact, BaseContext).value,
                       {}, "uuid-1", Now)
HashValues == {Sha256Hex(1), ArtifactHash, Absent, PyNone, PyInt(7), PyStr(<<>>)}
MissingKeySets == {{}, {"certificate_id"}, {"certificate_id", "created_at"}, {"provenance", "created_at", "rubrics"}, {"artifact"}}
Documents ==
    { [ValidCertificate EXCEPT !.keys = TopLevelKeys \ missing, !.artifact.hash = h, !.rubrics[2].pass = tier_pass,
                               !.gate_decision.decision = decision, !.gate_decision.deferral.to = to] :
        missing \in MissingKeySets, h \in HashValues, tier_pass \in {PyTrue, PyStr(<<"y","e","s">>)},
        decision \in {"approve", "maybe"}, to \in {Msg("human_review"), NoMessage} }

ArtifactPath == PyStr(<<"artifact.sql">>)

InitVerify ==
    /\ certificate \in {Returned(doc) : doc \in Documents}
    /\ artifact_path \in {PyNone, ArtifactPath}
    /\ artifact_file \in {MissingFile, UnreadableFile, File(1), File(2)}
    /\ certificate_file \in {MissingFile, UnreadableFile, InvalidJson, JsonArray, File(1)}
    /\ file_reads = 0
    /\ verify_out = NotCalled
    /\ provenance_in = {}
    /\ rubrics_by_tier = NoCatalog
    /\ artifact = BaseArtifact
    /\ context = BaseContext
    /\ check = NoCheck
    /\ check_out = RaisedCheck("not called")
    /\ tier = 0
    /\ tier_out = NoTierOutcome
    /\ tier_results = NoTierResults
    /\ gate_decision = NoGateDecision
    /\ results = <<>>
    /\ pc = "init"
    /\ IdleConcurrency /\ IdleMerkle /\ IdleManifest /\ IdleTools

\* verify_certificate_file(certificate_path, artifact_path): the certificate file, where
\* it holds an object, holds the document in `certificate`.
VerifyCertificateFile ==
    /\ certificate # NotCalled
    /\ verify_out = NotCalled
    /\ \E iter_errors \in IterErrors(certificate.value) :
          LET out == verify_certificate_file(certificate_file, certificate.value, iter_errors, artifact_path, artifact_file)
          IN  /\ verify_out' = [exc |-> out.exc, value |-> out.value]
              /\ file_reads' = file_reads + out.reads
    /\ pc' = "verify_certificate_file"
    /\ UNCHANGED <<rubrics_by_tier, artifact, context, check, check_out, tier, tier_out, tier_results, gate_decision, results>>
    /\ UNCHANGED <<certificateVars, artifact_path, artifact_file, certificate_file, concurrencyVars, merkleVars, manifestVars, toolVars>>

NextVerify == VerifyCertificate \/ VerifyCertificateFile

SpecVerify == InitVerify /\ [][NextVerify]_vars

(***************************************************************************)
(* Claims about the verifier, checked under SpecVerify.                    *)
(***************************************************************************)
VerifyCalled == pc = "verify_certificate"
VerifiedDoc == certificate.value
ErrorsOf(out) == {out.value.errors[i] : i \in 1..Len(out.value.errors)}
PathOfLocation(l) == IF l = <<"<root>">> THEN <<>> ELSE l

\* C14: schema validation comes first.  When the certificate has a schema error,
\* verify_certificate returns is_valid = false with one "<location>: <message>"
\* entry for each schema error, ordered by location, and neither opens the
\* artifact file nor reports a hash error; the artifact file is opened only when
\* a path was supplied and the schema found nothing.
C14_SchemaFirst ==
    VerifyCalled =>
        LET E == SchemaErrorSet(VerifiedDoc)
            errors == verify_out.value.errors
        IN  /\ E # {} =>
                  /\ verify_out.exc = "none"
                  /\ ~verify_out.value.is_valid
                  /\ Len(errors) = Cardinality(E)
                  /\ ErrorsOf(verify_out) = {SchemaErrorString(e) : e \in E}
                  /\ \A i, j \in 1..Len(errors) :
                        i < j => ~PathLess(PathOfLocation(errors[j].location), PathOfLocation(errors[i].location))
                  /\ file_reads = 0
            /\ file_reads > 0 => (artifact_path # PyNone /\ E = {})

C14_Witness ==
    /\ VerifyCalled
    /\ artifact_path = ArtifactPath
    /\ artifact_file = File(2)
    /\ Len(verify_out.value.errors) = 5
    /\ verify_out.value.errors[1].location = <<"<root>">>
    /\ verify_out.value.errors[4].location = <<"gate_decision", "decision">>
    /\ verify_out.value.errors[5].location = <<"gate_decision", "deferral", "to">>

\* The certificate passes the schema, a path is supplied and a file is there to hash.
HashStepCase ==
    /\ VerifyCalled
    /\ SchemaErrorSet(VerifiedDoc) = {}
    /\ artifact_path # PyNone
    /\ artifact_file.state = "file"
    /\ VerifiedDoc.artifact.hash.t = "str"
HashBinding ==
    LET expected == VerifiedDoc.artifact.hash
        actual == Sha256Hex(artifact_file.content)
    IN  /\ verify_out.exc = "none"
        /\ verify_out.value.is_valid <=> (actual = expected)
        /\ actual # expected =>
              /\ ~verify_out.value.is_valid
              /\ {ExpectedHash(expected), ActualHash(actual)} \subseteq ErrorsOf(verify_out)

C16_MissingFileIsReported ==
    LET no_artifact == artifact_path # PyNone /\ artifact_file.state # "file"
        no_certificate == pc = "verify_certificate_file" /\ certificate_file.state # "file"
    IN  (verify_out # NotCalled /\ (no_artifact \/ no_certificate)) =>
            /\ verify_out.exc = "none"
            /\ ~verify_out.value.is_valid
            /\ verify_out.value.errors # <<>>

(***************************************************************************)
(* SpecConcurrent: calls of evaluate in progress at once on one shared     *)
(* evaluator, each with its own artifact and context.  A call holds its    *)
(* tier_results in a local; a step of a call is one evaluate_tier of its   *)
(* loop, or the gate decision, the rubric versions and the return.  The    *)
(* steps of the calls interleave in every order.                           *)
(***************************************************************************)
Call(a, c, at, trs, out) == [artifact |-> a, context |-> c, at |-> at, tier_results |-> trs, out |-> out]
NoOutcome == [exc |-> "not returned", value |-> NoEvaluationResult]

ConcurrentCatalogs ==
    { <<<<Constitution>>, <<ClinicalInvariants>>, <<TaskBenchmarks>>>>,
      <<<<SitePolicy, Constitution>>, <<Placeholder, ClinicalInvariants>>, <<TaskBenchmarks, StrictOverlap>>>> }
CallInputs ==
    { <<BaseArtifact, BaseContext>>,
      <<BaseArtifact, [BaseContext EXCEPT !.cohort_jaccard = PyFloat(50)]>>,
      <<[BaseArtifact EXCEPT !.deterministic_executor = Absent], [BaseContext EXCEPT !.sql_executed = PyStr(<<"y">>)]>>,
      <<BaseArtifact, [BaseContext EXCEPT !.features = Features("list", 1, <<>>)]>> }

InitConcurrent ==
    /\ rubrics_by_tier \in ConcurrentCatalogs
    /\ calls \in [1..MaxThreads -> {Call(in[1], in[2], 1, NoTierResults, NoOutcome) : in \in CallInputs}]
    /\ artifact = BaseArtifact
    /\ context = BaseContext
    /\ check = NoCheck
    /\ check_out = RaisedCheck("not called")
    /\ tier = 0
    /\ tier_out = NoTierOutcome
    /\ tier_results = NoTierResults
    /\ gate_decision = NoGateDecision
    /\ results = <<>>
    /\ pc = "init"
    /\ IdleCertificate /\ IdleVerify /\ IdleMerkle /\ IdleManifest /\ IdleTools

\* One pass of the loop `for tier in [1, 2, 3]` of call i.
TierStepOf(call) ==
    LET outcome == evaluate_tier(rubrics_by_tier, call.at, call.artifact, call.context)
    IN  IF outcome.exc # "none"
        THEN [call EXCEPT !.at = 5, !.out = [exc |-> outcome.exc, value |-> NoEvaluationResult]]
        ELSE [call EXCEPT !.at = call.at + 1, !.tier_results[call.at] = [present |-> TRUE, result |-> outcome.value]]

\* As if tier_results were an attribute of the evaluator, written by every call.
EvaluateTierStepShared(i) ==
    /\ calls[i].at \in 1..3
    /\ LET stepped == TierStepOf(calls[i])
       IN  calls' = [j \in 1..MaxThreads |->
                        IF j = i THEN stepped
                        ELSE IF calls[j].at \in 1..4 THEN [calls[j] EXCEPT !.tier_results = stepped.tier_results]
                        ELSE calls[j]]
    /\ pc' = "evaluate_tier"
    /\ UNCHANGED <<rubrics_by_tier, artifact, context, check, check_out, tier, tier_out, tier_results, gate_decision, results>>
    /\ UNCHANGED <<certificateVars, verifyVars, merkleVars, manifestVars, toolVars>>

EvaluateTierStep(i) ==
    /\ calls[i].at \in 1..3
    /\ calls' = [calls EXCEPT ![i] = TierStepOf(calls[i])]
    /\ pc' = "evaluate_tier"
    /\ UNCHANGED <<rubrics_by_tier, artifact, context, check, check_out, tier, tier_out, tier_results, gate_decision, results>>
    /\ UNCHANGED <<certificateVars, verifyVars, merkleVars, manifestVars, toolVars>>

\* The rest of evaluate: the gate decision, the rubric versions, the return.
EvaluateReturnStep(i) ==
    /\ calls[i].at = 4
    /\ calls' = [calls EXCEPT ![i].at = 5,
                              ![i].out = Returned([ tier_results |-> calls[i].tier_results,
                                                    gate_decision |-> _compute_gate_decision(calls[i].tier_results),
                                                    rubric_versions |-> RubricVersions(rubrics_by_tier) ])]
    /\ pc' = "evaluate"
    /\ UNCHANGED <<rubrics_by_tier, artifact, context, check, check_out, tier, tier_out, tier_results, gate_decision, results>>
    /\ UNCHANGED <<certificateVars, verifyVars, merkleVars, manifestVars, toolVars>>

NextConcurrent == \E i \in 1..MaxThreads : EvaluateTierStep(i) \/ EvaluateReturnStep(i)

SpecConcurrent == InitConcurrent /\ [][NextConcurrent]_vars

(***************************************************************************)
(* Claims about concurrent evaluations, checked under SpecConcurrent.      *)
(***************************************************************************)
\* C17: no step of a call of evaluate changes the loaded catalog, an artifact or a
\* context, and whatever the interleaving every call that has ended has the outcome
\* evaluate gives for its artifact and context when run alone.
C17_EvaluationsAreIndependent ==
    /\ [](\A i \in 1..MaxThreads :
            calls[i].at = 5 => calls[i].out = evaluate(rubrics_by_tier, calls[i].artifact, calls[i].context))
    /\ [][ /\ rubrics_by_tier' = rubrics_by_tier
           /\ \A i \in 1..MaxThreads :
                 calls'[i].artifact = calls[i].artifact /\ calls'[i].context = calls[i].context ]_vars

C17_Witness ==
    /\ calls[1].at = 5
    /\ calls[2].at = 3
    /\ calls[1].out.exc = "none"
    /\ calls[1].out.value.gate_decision.decision = "revise"
    /\ calls[2].tier_results[1].result.passed = FALSE
    /\ calls[1].context # calls[2].context

(***************************************************************************)
(* datasets/manifest.py: the Merkle root.  A SHA-256 digest is a number:   *)
(* the digest of a file content is one of 0..NumContents-1, in the order   *)
(* str comparison puts the hex digests in, and 0 is the digest of the      *)
(* empty byte string.  The hash is collision-free: the digest of the       *)
(* concatenation of two hex digests is a number of its own for every pair, *)
(* and never the digest of a file content.                                 *)
(***************************************************************************)
NumContents == 3
EmptyDigest == 0
Sha256Concat(a, b) == NumContents + ((a + b) * (a + b + 1)) \div 2 + b

\* sorted(hashes)
RECURSIVE InsertHash(_, _)
InsertHash(h, sorted) ==
    IF sorted = <<>> THEN <<h>>
    ELSE IF h < Head(sorted) THEN <<h>> \o sorted
    ELSE <<Head(sorted)>> \o InsertHash(h, Tail(sorted))

RECURSIVE SortedHashes(_)
SortedHashes(hs) ==
    IF hs = <<>> THEN <<>> ELSE InsertHash(hs[Len(hs)], SortedHashes(SubSeq(hs, 1, Len(hs) - 1)))

\* As if the last hash of a level of odd length were left out of the next level.
NextLevelDroppingOdd(level) ==
    IF Len(level) = 1 THEN <<Sha256Concat(level[1], level[1])>>
    ELSE [k \in 1..(Len(level) \div 2) |-> Sha256Concat(level[2 * k - 1], level[2 * k])]

\* One pass of the while loop: the hashes two by two, the last one of an odd level
\* with itself.
NextLevel(level) ==
    [k \in 1..((Len(level) + 1) \div 2) |->
        IF 2 * k <= Len(level) THEN Sha256Concat(level[2 * k - 1], level[2 * k])
        ELSE Sha256Concat(level[2 * k - 1], level[2 * k - 1])]

RECURSIVE MerkleFold(_)
MerkleFold(level) == IF Len(level) > 1 THEN MerkleFold(NextLevel(level)) ELSE level[1]

\* As if the tree were built on the hashes in the order given.
_compute_merkle_root_unsorted(hs) == IF hs = <<>> THEN EmptyDigest ELSE MerkleFold(hs)

_compute_merkle_root(hs) == IF hs = <<>> THEN EmptyDigest ELSE MerkleFold(SortedHashes(hs))

(***************************************************************************)
(* datasets/manifest.py: create_manifest and verify_manifest.  The dataset *)
(* directory holds, at each path, no file (-1) or a file content.  Path 0  *)
(* is a log file, which the default exclude patterns match; paths          *)
(* 1..MaxFiles are data files; the order of the numbers is the order       *)
(* sorted() puts the paths in.                                             *)
(***************************************************************************)
NoFile == -1
Contents == 0..(NumContents - 1)
\* The size in bytes and the digest of a content: content 0 is the empty file, two
\* contents have one size.
SizeOf(content) == IF content = 0 THEN 0 ELSE 1
_compute_sha256(content) == CASE content = 0 -> EmptyDigest [] content = 1 -> 2 [] content = 2 -> 1

LogPath == 0
Paths == 0..MaxFiles
\* exclude_patterns: None, or a list of patterns.  A pattern of the model matches
\* the log file or the data files.
NoPatterns == [given |-> FALSE, patterns |-> <<>>]
Patterns(patterns) == [given |-> TRUE, patterns |-> patterns]
DefaultPatterns == <<".DS_Store", "*.log", "__pycache__">>
Matches(path, pattern) ==
    CASE pattern = "*.log" -> path = LogPath
      [] pattern = "*.csv" -> path # LogPath
      [] OTHER -> FALSE
\* exclude_patterns or [".DS_Store", "*.log", "__pycache__"]
EffectivePatterns(exclude) == IF exclude.given /\ exclude.patterns # <<>> THEN exclude.patterns ELSE DefaultPatterns
Excluded(path, exclude) ==
    LET patterns == EffectivePatterns(exclude)
    IN  \E i \in 1..Len(patterns) : Matches(path, patterns[i])
Directory(exists, files) == [exists |-> exists, files |-> files]
IsFile(dir, path) == dir.exists /\ dir.files[path] # NoFile

FileInfo(path, size_bytes, sha256) == [path |-> path, size_bytes |-> size_bytes, sha256 |-> sha256, modified_at |-> "mtime"]
DatasetManifest(total_files, total_size_bytes, root_hash, files) ==
    [total_files |-> total_files, total_size_bytes |-> total_size_bytes, root_hash |-> root_hash, files |-> files]
NoManifest == DatasetManifest(0, 0, EmptyDigest, <<>>)

\* The FileInfo of the files at the paths first..MaxFiles that are not excluded, by path.
RECURSIVE ScanFrom(_, _, _)
ScanFrom(dir, exclude, first) ==
    IF first > MaxFiles THEN <<>>
    ELSE IF dir.files[first] = NoFile \/ Excluded(first, exclude) THEN ScanFrom(dir, exclude, first + 1)
    ELSE <<FileInfo(first, SizeOf(dir.files[first]), _compute_sha256(dir.files[first]))>> \o ScanFrom(dir, exclude, first + 1)

RECURSIVE SumSizes(_)
SumSizes(files) == IF files = <<>> THEN 0 ELSE Head(files).size_bytes + SumSizes(Tail(files))

\* As if create_manifest computed the root over the hashes in the order of the paths.
create_manifest_root_by_path(dir, exclude) ==
    IF ~dir.exists THEN [exc |-> "ValueError", value |-> NoManifest]
    ELSE LET files == ScanFrom(dir, exclude, 0)
             all_hashes == [i \in 1..Len(files) |-> files[i].sha256]
         IN  Returned(DatasetManifest(Len(files), SumSizes(files), _compute_merkle_root_unsorted(all_hashes), files))

create_manifest(dir, exclude) ==
    IF ~dir.exists THEN [exc |-> "ValueError", value |-> NoManifest]
    ELSE LET files == ScanFrom(dir, exclude, 0)
             all_hashes == [i \in 1..Len(files) |-> files[i].sha256]
         IN  Returned(DatasetManifest(Len(files), SumSizes(files), _compute_merkle_root(all_hashes), files))

\* An error string of verify_manifest: its fixed text and what is formatted into it.
ManifestError(text, path, expected, actual) == [text |-> text, path |-> path, expected |-> expected, actual |-> actual]
MissingFileError(f) == ManifestError("Missing file: {path}", f.path, 0, 0)
SizeMismatch(f, actual_size) ==
    ManifestError("Size mismatch for {path}: expected {size_bytes}, got {actual_size}", f.path, f.size_bytes, actual_size)
HashMismatchFor(f) == ManifestError("Hash mismatch for {path}", f.path, 0, 0)
RootMismatch(expected, current_root) ==
    ManifestError("Merkle root mismatch: expected {root_hash}, got {current_root}", -1, expected, current_root)

\* As if the size and the hash of an existing file were both checked and reported.
EntryErrorsAllChecks(f, dir) ==
    IF ~IsFile(dir, f.path) THEN <<MissingFileError(f)>>
    ELSE (IF SizeOf(dir.files[f.path]) # f.size_bytes THEN <<SizeMismatch(f, SizeOf(dir.files[f.path]))>> ELSE <<>>)
         \o (IF _compute_sha256(dir.files[f.path]) # f.sha256 THEN <<HashMismatchFor(f)>> ELSE <<>>)

\* The error of one manifest entry, if any: existence, then size, then hash.
EntryErrors(f, dir) ==
    IF ~IsFile(dir, f.path) THEN <<MissingFileError(f)>>
    ELSE IF SizeOf(dir.files[f.path]) # f.size_bytes THEN <<SizeMismatch(f, SizeOf(dir.files[f.path]))>>
    ELSE IF _compute_sha256(dir.files[f.path]) # f.sha256 THEN <<HashMismatchFor(f)>>
    ELSE <<>>

RECURSIVE AllEntryErrors(_, _)
AllEntryErrors(files, dir) ==
    IF files = <<>> THEN <<>> ELSE EntryErrors(Head(files), dir) \o AllEntryErrors(Tail(files), dir)

\* The hashes of the manifest's files that exist, in the manifest's order.
RECURSIVE CurrentHashes(_, _)
CurrentHashes(files, dir) ==
    IF files = <<>> THEN <<>>
    ELSE (IF IsFile(dir, Head(files).path) THEN <<_compute_sha256(dir.files[Head(files).path])>> ELSE <<>>)
         \o CurrentHashes(Tail(files), dir)

verify_manifest(m, dir) ==
    LET current_root == _compute_merkle_root(CurrentHashes(m.files, dir))
        errors == AllEntryErrors(m.files, dir)
                  \o (IF current_root # m.root_hash THEN <<RootMismatch(m.root_hash, current_root)>> ELSE <<>>)
    IN  [is_valid |-> errors = <<>>, errors |-> errors]

(***************************************************************************)
(* SpecManifest: _compute_merkle_root on two related lists of hashes, and  *)
(* create_manifest, changes of the files of the dataset directory, a       *)
(* second create_manifest and verify_manifest of the first manifest.       *)
(***************************************************************************)
Count(hs, h) == Cardinality({i \in 1..Len(hs) : hs[i] = h})
IsPermutation(hs, gs) == Len(hs) = Len(gs) /\ \A h \in Contents : Count(hs, h) = Count(gs, h)
Differing(hs, gs) == {i \in 1..Len(hs) : hs[i] # gs[i]}

HashLists == UNION {[1..n -> Contents] : n \in 0..MaxHashes}
\* The lists a list is compared with: the lists of its length, among them its
\* permutations and the lists that differ from it in one place, and the lists
\* that have one hash more at the end.
RelatedLists(hs) ==
    [1..Len(hs) -> Contents] \cup {Append(hs, h) : h \in {c \in Contents : Len(hs) < MaxHashes}}

NoDirectory == Directory(FALSE, [p \in Paths |-> NoFile])
Directories ==
    {NoDirectory} \cup
    {Directory(TRUE, files) : files \in {f \in [Paths -> {NoFile} \cup Contents] : f[LogPath] \in {NoFile, 1}}}
\* The exclusion sets create_manifest is called with: none, the empty list, and a
\* list that excludes the data files and not the log file.
ExcludePatterns == {NoPatterns, Patterns(<<>>), Patterns(<<"*.csv">>)}

InitManifest ==
    /\ \/ /\ hashes \in HashLists
          /\ other_hashes \in RelatedLists(hashes)
          /\ dataset_dir = NoDirectory
          /\ exclude_patterns = NoPatterns
       \/ /\ hashes = <<>>
          /\ other_hashes = <<>>
          /\ dataset_dir \in Directories
          /\ exclude_patterns \in ExcludePatterns
    /\ merkle_out = NotCalled
    /\ manifest = NotCalled
    /\ recreated = NotCalled
    /\ manifest_out = NotCalled
    /\ rubrics_by_tier = NoCatalog
    /\ artifact = BaseArtifact
    /\ context = BaseContext
    /\ check = NoCheck
    /\ check_out = RaisedCheck("not called")
    /\ tier = 0
    /\ tier_out = NoTierOutcome
    /\ tier_results = NoTierResults
    /\ gate_decision = NoGateDecision
    /\ results = <<>>
    /\ pc = "init"
    /\ IdleCertificate /\ IdleVerify /\ IdleConcurrency /\ IdleTools

\* The two calls on the lists of hashes, made before any manifest is created.
ComputeMerkleRoots ==
    /\ merkle_out = NotCalled
    /\ manifest = NotCalled
    /\ merkle_out' = [root |-> _compute_merkle_root(hashes), other_root |-> _compute_merkle_root(other_hashes)]
    /\ pc' = "_compute_merkle_root"
    /\ UNCHANGED <<rubrics_by_tier, artifact, context, check, check_out, tier, tier_out, tier_results, gate_decision, results, hashes, other_hashes, manifestVars, certificateVars, verifyVars, concurrencyVars, toolVars>>

\* create_manifest(dataset_dir, ...): the first call gives `manifest`, a later one
\* `recreated`; each is kept with the directory it saw.
CreateManifest ==
    /\ recreated = NotCalled
    /\ LET out == create_manifest(dataset_dir, exclude_patterns)
           seen == [exc |-> out.exc, value |-> out.value, dir |-> dataset_dir]
       IN  IF manifest = NotCalled
           THEN manifest' = seen /\ UNCHANGED recreated
           ELSE recreated' = seen /\ UNCHANGED manifest
    /\ pc' = "create_manifest"
    /\ UNCHANGED <<rubrics_by_tier, artifact, context, check, check_out, tier, tier_out, tier_results, gate_decision, results, merkleVars, dataset_dir, exclude_patterns, manifest_out, certificateVars, verifyVars, concurrencyVars, toolVars>>

\* Between the first create_manifest and the calls that follow, files of the
\* directory are written and removed.
FilesMayChange == dataset_dir.exists /\ manifest # NotCalled /\ recreated = NotCalled /\ manifest_out = NotCalled
WriteFile(path, content) ==
    /\ FilesMayChange
    /\ path = LogPath => content = 1
    /\ dataset_dir.files[path] # content
    /\ dataset_dir' = [dataset_dir EXCEPT !.files[path] = content]
    /\ pc' = "write"
    /\ UNCHANGED <<rubrics_by_tier, artifact, context, check, check_out, tier, tier_out, tier_results, gate_decision, results, merkleVars, exclude_patterns, manifest, recreated, manifest_out, certificateVars, verifyVars, concurrencyVars, toolVars>>

RemoveFile(path) ==
    /\ FilesMayChange
    /\ dataset_dir.files[path] # NoFile
    /\ dataset_dir' = [dataset_dir EXCEPT !.files[path] = NoFile]
    /\ pc' = "remove"
    /\ UNCHANGED <<rubrics_by_tier, artifact, context, check, check_out, tier, tier_out, tier_results, gate_decision, results, merkleVars, exclude_patterns, manifest, recreated, manifest_out, certificateVars, verifyVars, concurrencyVars, toolVars>>

\* verify_manifest(manifest, dataset_dir) on the first manifest.
VerifyManifest ==
    /\ manifest # NotCalled
    /\ manifest.exc = "none"
    /\ manifest_out = NotCalled
    /\ manifest_out' = Returned(verify_manifest(manifest.value, dataset_dir))
    /\ pc' = "verify_manifest"
    /\ UNCHANGED <<rubrics_by_tier, artifact, context, check, check_out, tier, tier_out, tier_results, gate_decision, results, merkleVars, dataset_dir, exclude_patterns, manifest, recreated, certificateVars, verifyVars, concurrencyVars, toolVars>>

NextManifest ==
    \/ ComputeMerkleRoots
    \/ CreateManifest
    \/ \E path \in Paths, content \in Contents : WriteFile(path, content)
    \/ \E path \in Paths : RemoveFile(path)
    \/ VerifyManifest

SpecManifest == InitManifest /\ [][NextManifest]_vars

(***************************************************************************)
(* Claims about the Merkle root and the manifest, checked under            *)
(* SpecManifest.                                                           *)
(***************************************************************************)
MerkleCalled == merkle_out # NotCalled
BothCreated == manifest # NotCalled /\ recreated # NotCalled /\ manifest.exc = "none" /\ recreated.exc = "none"
HashesOf(m) == [i \in 1..Len(m.files) |-> m.files[i].sha256]
PathsOf(m) == {m.files[i].path : i \in 1..Len(m.files)}

\* C18: _compute_merkle_root returns the same root for a list of hashes and for
\* every permutation of it; and two manifests create_manifest builds over the same
\* file contents, met in a different order, have the same root_hash.
C18_RootIgnoresOrder ==
    /\ (MerkleCalled /\ IsPermutation(hashes, other_hashes)) => merkle_out.root = merkle_out.other_root
    /\ (BothCreated /\ IsPermutation(HashesOf(manifest.value), HashesOf(recreated.value))) =>
            manifest.value.root_hash = recreated.value.root_hash

C18_Witness ==
    /\ MerkleCalled
    /\ Len(hashes) = 3
    /\ hashes = <<2, 0, 1>>
    /\ other_hashes = <<1, 2, 0>>
    /\ merkle_out.root = merkle_out.other_root

\* C19: with a collision-free hash, changing the content of exactly one file of a
\* non-empty dataset, the paths staying the same, changes the root_hash
\* create_manifest computes; likewise _compute_merkle_root of two non-empty lists
\* that differ in one hash.
C19_OneChangeChangesRoot ==
    /\ (MerkleCalled /\ Len(hashes) = Len(other_hashes) /\ Cardinality(Differing(hashes, other_hashes)) = 1) =>
            merkle_out.root # merkle_out.other_root
    /\ ( /\ BothCreated
         /\ PathsOf(manifest.value) = PathsOf(recreated.value)
         /\ Cardinality(Differing(HashesOf(manifest.value), HashesOf(recreated.value))) = 1 ) =>
            manifest.value.root_hash # recreated.value.root_hash

C19_Witness ==
    /\ BothCreated
    /\ PathsOf(manifest.value) = {1, 2}
    /\ HashesOf(manifest.value) = <<2, 1>>
    /\ HashesOf(recreated.value) = <<2, 2>>
    /\ manifest.value.root_hash # recreated.value.root_hash

\* C20: when every entry of the manifest still matches its file in existence, size
\* and hash, and the directory holds a file the manifest does not list and the
\* exclude patterns do not match, verify_manifest returns is_valid = false with a
\* Merkle root mismatch error.
C20_ExtraFileIsDetected ==
    LET m == manifest.value
        entries_match == AllEntryErrors(m.files, dataset_dir) = <<>>
        extra == {p \in Paths : IsFile(dataset_dir, p) /\ ~Excluded(p, exclude_patterns) /\ p \notin PathsOf(m)}
    IN  (manifest_out # NotCalled /\ entries_match /\ extra # {}) =>
            /\ ~manifest_out.value.is_valid
            /\ \E i \in 1..Len(manifest_out.value.errors) :
                  manifest_out.value.errors[i].text = "Merkle root mismatch: expected {root_hash}, got {current_root}"

ManifestVerified == manifest_out # NotCalled
\* The text of the first check a manifest entry fails against the directory, "" if
\* it fails none.
FirstFailure(f, dir) ==
    IF dir.exists => dir.files[f.path] = NoFile THEN "Missing file: {path}"
    ELSE IF SizeOf(dir.files[f.path]) # f.size_bytes THEN "Size mismatch for {path}: expected {size_bytes}, got {actual_size}"
    ELSE IF _compute_sha256(dir.files[f.path]) # f.sha256 THEN "Hash mismatch for {path}"
    ELSE ""
ErrorsAbout(errors, path) == {i \in 1..Len(errors) : errors[i].path = path}

\* C21: verify_manifest reports, for each entry of the manifest, nothing when the
\* entry matches its file and else exactly one error, that of the first check the
\* entry fails in the order existence, size, hash; the errors of all the entries
\* that fail are in the list; and is_valid is true exactly when the list is empty.
C21_FirstFailurePerEntry ==
    ManifestVerified =>
        LET m == manifest.value
            out == manifest_out.value
        IN  /\ \A k \in 1..Len(m.files) :
                  LET about == ErrorsAbout(out.errors, m.files[k].path)
                      failure == FirstFailure(m.files[k], dataset_dir)
                  IN  IF failure = "" THEN about = {}
                      ELSE /\ Cardinality(about) = 1
                           /\ \A i \in about : out.errors[i].text = failure
            /\ out.is_valid <=> out.errors = <<>>

\* Two entries fail: the first one in size and in hash, the second one is missing.
C21_Witness ==
    /\ ManifestVerified
    /\ Len(manifest.value.files) = 2
    /\ FirstFailure(manifest.value.files[1], dataset_dir) = "Size mismatch for {path}: expected {size_bytes}, got {actual_size}"
    /\ _compute_sha256(dataset_dir.files[manifest.value.files[1].path]) # manifest.value.files[1].sha256
    /\ FirstFailure(manifest.value.files[2], dataset_dir) = "Missing file: {path}"
    /\ Cardinality(ErrorsAbout(manifest_out.value.errors, manifest.value.files[1].path)) = 1
    /\ Cardinality(ErrorsAbout(manifest_out.value.errors, manifest.value.files[2].path)) = 1
    /\ ~manifest_out.value.is_valid

\* The listed files that are not as create_manifest saw them: deleted, or of another
\* content (of another size or of the same size).
ChangedEntries ==
    {k \in 1..Len(manifest.value.files) :
        dataset_dir.files[manifest.value.files[k].path] # manifest.dir.files[manifest.value.files[k].path]}

\* C27: verify_manifest of the manifest create_manifest returned, whatever the
\* exclusion set, and of the directory as create_manifest saw it returns
\* (true, []); once a listed file was deleted, resized or given another content, it
\* returns is_valid = false.
C27_ManifestRoundTrip ==
    ManifestVerified =>
        /\ dataset_dir = manifest.dir => manifest_out.value = [is_valid |-> TRUE, errors |-> <<>>]
        /\ ChangedEntries # {} => ~manifest_out.value.is_valid

\* Two data files whose hashes are not in sorted order, the empty exclusion list,
\* nothing changed before verify_manifest.
C27_Witness ==
    /\ ManifestVerified
    /\ exclude_patterns = Patterns(<<>>)
    /\ dataset_dir = manifest.dir
    /\ HashesOf(manifest.value) = <<2, 1>>
    /\ manifest_out.value.is_valid

\* The log file is listed under an exclusion set that leaves it in, and was deleted.
C27_WitnessDeleted ==
    /\ ManifestVerified
    /\ exclude_patterns = Patterns(<<"*.csv">>)
    /\ PathsOf(manifest.value) = {LogPath}
    /\ ChangedEntries = {1}
    /\ ~manifest_out.value.is_valid

SameMultiset(hs, gs) == \A h \in Contents : Count(hs, h) = Count(gs, h)

\* C28: with a collision-free hash, two lists of file hashes that differ as
\* multisets, lists of different lengths among them, never have the same
\* _compute_merkle_root, and the root of a non-empty list is never the root of the
\* empty list.
C28_RootBindsMultiset ==
    MerkleCalled =>
        /\ ~SameMultiset(hashes, other_hashes) => merkle_out.root # merkle_out.other_root
        /\ other_hashes # <<>> => merkle_out.other_root # _compute_merkle_root(<<>>)

\* What holds of the roots: lists of one length that differ as multisets have
\* different roots.
C28_RootBindsMultisetOfOneLength ==
    (MerkleCalled /\ Len(hashes) = Len(other_hashes) /\ ~SameMultiset(hashes, other_hashes)) =>
        merkle_out.root # merkle_out.other_root

\* A list of three hashes and the same list with its largest hash once more: one
\* root.
C28_RepeatedLargestHash ==
    /\ MerkleCalled
    /\ hashes = <<0, 1, 2>>
    /\ other_hashes = <<0, 1, 2, 2>>
    /\ merkle_out.root = merkle_out.other_root

(***************************************************************************)
(* The gate decision of the results evaluate returns, checked under Spec.  *)
(***************************************************************************)
\* C30: in every EvaluationResult evaluate returns, the decision is approve exactly
\* when blocking_reasons is empty, required_fixes is not longer than
\* blocking_reasons, deferral_recommended is true exactly when the decision is
\* block, and deferral_to is "human_review" then and None otherwise.
C30_GateDecisionIsCoherent ==
    \A i \in 1..Len(results) :
        results[i].exc = "none" =>
            LET g == results[i].value.gate_decision
            IN  /\ g.decision \in {"approve", "revise", "block"}
                /\ g.decision = "approve" <=> g.blocking_reasons = <<>>
                /\ Len(g.required_fixes) <= Len(g.blocking_reasons)
                /\ g.deferral_recommended <=> g.decision = "block"
                /\ g.deferral_to = (IF g.decision = "block" THEN Msg("human_review") ELSE NoMessage)

\* A result with the decision revise: blocking reasons, a fix for each, no deferral.
C30_Witness ==
    /\ Len(results) >= 1
    /\ results[1].exc = "none"
    /\ results[1].value.gate_decision.decision = "revise"
    /\ results[1].value.gate_decision.blocking_reasons # <<>>
    /\ Len(results[1].value.gate_decision.required_fixes) = Len(results[1].value.gate_decision.blocking_reasons)
    /\ results[1].value.gate_decision.deferral_to = NoMessage

C30_WitnessBlock ==
    /\ Len(results) >= 1
    /\ results[1].exc = "none"
    /\ results[1].value.gate_decision.decision = "block"
    /\ results[1].value.gate_decision.deferral_to = Msg("human_review")

C30_WitnessApprove ==
    /\ Len(results) >= 1
    /\ results[1].exc = "none"
    /\ results[1].value.gate_decision.decision = "approve"

(***************************************************************************)
(* rubric_loader.py: load_rubric_file and load_all_rubrics.  A rubric file *)
(* is its name, whether its text parses as YAML, the required keys its     *)
(* document lacks and the suite the document describes.  The rubric schema *)
(* (schemas/rubric.schema.json) is taken from the data model of the        *)
(* specification: an object with the required fields of a RubricSuite.     *)
(***************************************************************************)
RubricFile(name, parses, missing, suite) == [name |-> name, parses |-> parses, missing |-> missing, suite |-> suite]
NoSuite == RubricSuite("", 0, "", <<>>)

\* validator.iter_errors(raw): one error for each required key that is missing.
RubricSchemaErrors(file) == file.missing

load_rubric_file(file) ==
    IF ~file.parses THEN [exc |-> "YAMLError", value |-> NoSuite]
    ELSE IF RubricSchemaErrors(file) # {} THEN [exc |-> "ValueError", value |-> NoSuite]
    ELSE Returned(file.suite)

\* The loop over the files of one tier directory, in the order glob yields them:
\* the suite of a file is appended, a file that raises is reported and skipped.
RECURSIVE LoadFiles(_)
LoadFiles(files) ==
    IF files = <<>> THEN [value |-> <<>>, warnings |-> <<>>]
    ELSE LET out == load_rubric_file(Head(files))
             rest == LoadFiles(Tail(files))
         IN  IF out.exc = "none" THEN [rest EXCEPT !.value = <<out.value>> \o @]
             ELSE [rest EXCEPT !.warnings = <<Head(files).name>> \o @]

\* As if the exception of a file that fails were not caught.
load_all_rubrics_aborting(dir, glob) ==
    LET tiers == [t \in 1..3 |-> IF dir[t].exists THEN LoadFiles(glob[t]) ELSE LoadFiles(<<>>)]
        failing == {t \in 1..3 : tiers[t].warnings # <<>>}
    IN  [ exc |-> IF failing = {} THEN "none" ELSE "ValueError",
          value |-> IF failing = {} THEN [t \in 1..3 |-> tiers[t].value] ELSE NoCatalog,
          warnings |-> <<>> ]

\* load_all_rubrics(rubrics_dir); glob[t] is the order tier_path.glob("*.yaml")
\* yields the files of tier t in.  A tier directory that does not exist is skipped.
load_all_rubrics(dir, glob) ==
    LET tiers == [t \in 1..3 |-> IF dir[t].exists THEN LoadFiles(glob[t]) ELSE LoadFiles(<<>>)]
    IN  [ exc |-> "none",
          value |-> [t \in 1..3 |-> tiers[t].value],
          warnings |-> tiers[1].warnings \o tiers[2].warnings \o tiers[3].warnings ]

(***************************************************************************)
(* SpecLoad: evaluators are constructed on one rubrics directory, each     *)
(* construction calling load_all_rubrics, the file system enumerating the  *)
(* files of a tier directory in any order; each evaluator evaluates the    *)
(* same artifact and context.                                              *)
(***************************************************************************)
MaxLoads == 2

\* Two checks with one id, told apart by their scoring.
DuplicatedIds ==
    RubricSuite("tier3.duplicated", 3, "0.3.0",
        << RubricCheck("tier3.cohort_overlap_jaccard", NoScoring),
           RubricCheck("tier3.cohort_overlap_jaccard", Scoring("dict", 1, PyFloat(90))) >>)

\* The files a tier directory may hold.  tier1/ may hold a file that is not YAML
\* and a file whose suite declares tier 2, tier2/ a file whose document lacks a
\* required key.
RubricFileLibrary ==
    << { RubricFile("tier1/constitution.yaml", TRUE, {}, Constitution),
         RubricFile("tier1/site_policy.yaml", TRUE, {}, SitePolicy),
         RubricFile("tier1/broken.yaml", FALSE, {}, NoSuite),
         RubricFile("tier1/clinical_invariants.yaml", TRUE, {}, ClinicalInvariants) },
       { RubricFile("tier2/placeholder.yaml", TRUE, {}, Placeholder),
         RubricFile("tier2/no_version.yaml", TRUE, {"version"}, NoSuite) },
       { RubricFile("tier3/task_benchmarks.yaml", TRUE, {}, TaskBenchmarks),
         RubricFile("tier3/duplicated.yaml", TRUE, {}, DuplicatedIds) } >>

TierDirectory(exists, files) == [exists |-> exists, files |-> files]
TierDirectories(t) == {TierDirectory(FALSE, {})} \cup {TierDirectory(TRUE, files) : files \in SUBSET RubricFileLibrary[t]}

\* The orders glob may yield the files of a set in.
Enumerations(files) ==
    {q \in [1..Cardinality(files) -> files] : \A i, j \in 1..Cardinality(files) : i # j => q[i] # q[j]}

InitLoad ==
    /\ \E d1 \in TierDirectories(1), d2 \in TierDirectories(2), d3 \in TierDirectories(3) : rubrics_dir = <<d1, d2, d3>>
    /\ loaded = <<>>
    /\ rubrics_by_tier = NoCatalog
    /\ artifact = BaseArtifact
    /\ context = BaseContext
    /\ check = NoCheck
    /\ check_out = RaisedCheck("not called")
    /\ tier = 0
    /\ tier_out = NoTierOutcome
    /\ tier_results = NoTierResults
    /\ gate_decision = NoGateDecision
    /\ results = <<>>
    /\ pc = "init"
    /\ IdleCertificate /\ IdleVerify /\ IdleConcurrency /\ IdleMerkle /\ IdleManifest /\ IdleCli /\ IdleHarness

\* RubricEvaluator(rubrics_dir): load_all_rubrics(self.rubrics_dir).
LoadAllRubrics ==
    /\ Len(loaded) < MaxLoads
    /\ Len(results) = Len(loaded)
    /\ \E g1 \in Enumerations(rubrics_dir[1].files), g2 \in Enumerations(rubrics_dir[2].files), g3 \in Enumerations(rubrics_dir[3].files) :
          \E out \in {load_all_rubrics(rubrics_dir, <<g1, g2, g3>>)} :
              /\ loaded' = Append(loaded, out)
              /\ rubrics_by_tier' = out.value
    /\ pc' = "load_all_rubrics"
    /\ UNCHANGED <<artifact, context, check, check_out, tier, tier_out, tier_results, gate_decision, results>>
    /\ UNCHANGED <<rubrics_dir, certificateVars, verifyVars, concurrencyVars, merkleVars, manifestVars, cliVars, harnessVars>>

\* evaluate(artifact, context) on the evaluator constructed last.
EvaluateLoaded ==
    /\ Len(results) < Len(loaded)
    /\ loaded[Len(loaded)].exc = "none"
    /\ results' = Append(results, evaluate(rubrics_by_tier, artifact, context))
    /\ pc' = "evaluate"
    /\ UNCHANGED <<rubrics_by_tier, artifact, context, check, check_out, tier, tier_out, tier_results, gate_decision>>
    /\ UNCHANGED serviceVars

NextLoad == LoadAllRubrics \/ EvaluateLoaded

SpecLoad == InitLoad /\ [][NextLoad]_vars

(***************************************************************************)
(* Claims about the loaded catalog, checked under SpecLoad.                *)
(***************************************************************************)
\* The files of tier directory t that load, and those that fail to parse or to
\* validate.
ValidFiles(t) == {f \in rubrics_dir[t].files : f.parses /\ f.missing = {}}
FailingFiles(t) == rubrics_dir[t].files \ ValidFiles(t)
SuitesOf(suites) == {suites[k] : k \in 1..Len(suites)}
NamesOf(names) == {names[k] : k \in 1..Len(names)}

\* C22: whatever files of the rubrics directory fail to parse or to validate,
\* load_all_rubrics returns without raising; under each tier it returns the suites
\* of exactly the valid files of that tier's directory, each once, and it skips,
\* with a warning, exactly the failing files.
C22_PartialSuccess ==
    \A i \in 1..Len(loaded) :
        /\ loaded[i].exc = "none"
        /\ \A t \in 1..3 :
              /\ SuitesOf(loaded[i].value[t]) = {f.suite : f \in ValidFiles(t)}
              /\ Len(loaded[i].value[t]) = Cardinality(ValidFiles(t))
        /\ NamesOf(loaded[i].warnings) = {f.name : f \in FailingFiles(1) \cup FailingFiles(2) \cup FailingFiles(3)}
        /\ Len(loaded[i].warnings) = Cardinality(FailingFiles(1) \cup FailingFiles(2) \cup FailingFiles(3))

\* A file that is not YAML between two valid files of tier1/, a file that fails the
\* schema next to a valid one in tier2/.
C22_Witness ==
    /\ Len(loaded) >= 1
    /\ Cardinality(FailingFiles(1)) = 1
    /\ Cardinality(FailingFiles(2)) = 1
    /\ SuitesOf(loaded[1].value[1]) = {Constitution, SitePolicy}
    /\ loaded[1].value[2] = <<Placeholder>>
    /\ Len(loaded[1].warnings) = 2

\* C23: two loads of the same files give the same suites in the same order within
\* each tier, whatever order the file system enumerates the files in, and so the
\* order of the checks of a TierResult and rubric_versions are the same.
C23_ReloadIsDeterministic ==
    \A i, j \in 1..Len(loaded) :
        /\ loaded[i].value = loaded[j].value
        /\ (i <= Len(results) /\ j <= Len(results)) =>
              /\ results[i].value.tier_results = results[j].value.tier_results
              /\ results[i].value.rubric_versions = results[j].value.rubric_versions

\* C24: the check ids of every loaded suite are pairwise distinct.
C24_CheckIdsAreUnique ==
    \A i \in 1..Len(loaded) : \A t \in 1..3 : \A k \in 1..Len(loaded[i].value[t]) :
        LET checks == loaded[i].value[t][k].checks
        IN  \A a, b \in 1..Len(checks) : a # b => checks[a].id # checks[b].id

\* C29: every suite indexed under a tier declares that tier.
C29_IndexedUnderDeclaredTier ==
    \A i \in 1..Len(loaded) : \A t \in 1..3 : \A k \in 1..Len(loaded[i].value[t]) :
        loaded[i].value[t][k].tier = t

(***************************************************************************)
(* cli.py: cmd_evaluate.  The arguments say whether the artifact JSON file *)
(* can be read, whether a context file is given and whether an output file *)
(* is given and can be written; `artifact` and `context` are what the two   *)
(* JSON files hold and rubrics_by_tier what the evaluator loads.           *)
(***************************************************************************)
CliArgs(artifact_json, context_json, output) == [artifact_json |-> artifact_json, context_json |-> context_json, output |-> output]

\* context = {}
EmptyContext ==
    [ provenance |-> Provenance("absent", 0, Absent), features |-> Features("absent", 0, <<>>),
      index_time |-> Absent, has_outcome_leakage |-> Absent, sql_executed |-> Absent, cohort_jaccard |-> Absent ]

\* context.get("provenance", {}) as a mapping of items.
ProvenanceOf(c) ==
    IF c.provenance.t = "dict" /\ c.provenance.audit_trace_id # Absent
    THEN {Item("audit_trace_id", c.provenance.audit_trace_id, {})} ELSE {}

\* As if the last branch returned the code of revise.
ReturnCodeWithoutBlock(decision) == IF decision = "approve" THEN 0 ELSE 1

\* Return code based on decision.
ReturnCode(decision) ==
    IF decision = "approve" THEN 0 ELSE IF decision = "revise" THEN 1 ELSE 2

NoCertificate == create_certificate(BaseArtifact, NoEvaluationResult, {}, "", "")
CliRaised(e) == [exc |-> e, value |-> -1, certificate |-> NoCertificate, written |-> FALSE]

cmd_evaluate(cli, cat, a, c, certificate_id) ==
    IF cli.artifact_json = "missing" THEN CliRaised("FileNotFoundError")
    ELSE LET ctx == IF cli.context_json = "file" THEN c ELSE EmptyContext
             evaluation == evaluate(cat, a, ctx)
         IN  IF evaluation.exc # "none" THEN CliRaised(evaluation.exc)
             ELSE LET cert == create_certificate(a, evaluation.value, ProvenanceOf(ctx), certificate_id, Now)
                  IN  IF cli.output = "unwritable" THEN CliRaised("OSError")
                      ELSE [ exc |-> "none", value |-> ReturnCode(cert.gate_decision.decision),
                             certificate |-> cert, written |-> cli.output = "file" ]

(***************************************************************************)
(* SpecCli: one run of the evaluate command.                               *)
(***************************************************************************)
CliArguments ==
    {CliArgs(a, c, o) : a \in {"file", "missing"}, c \in {"none", "file"}, o \in {"none", "file", "unwritable"}}

InitCli ==
    /\ rubrics_by_tier \in CertCatalogs
    /\ artifact \in EvalArtifacts
    /\ context \in CertContexts
    /\ cli_args \in CliArguments
    /\ cli_out = NotCalled
    /\ check = NoCheck
    /\ check_out = RaisedCheck("not called")
    /\ tier = 0
    /\ tier_out = NoTierOutcome
    /\ tier_results = NoTierResults
    /\ gate_decision = NoGateDecision
    /\ results = <<>>
    /\ pc = "init"
    /\ IdleCertificate /\ IdleVerify /\ IdleConcurrency /\ IdleMerkle /\ IdleManifest /\ IdleLoader /\ IdleHarness

CmdEvaluate ==
    /\ cli_out = NotCalled
    /\ \E certificate_id \in CertificateIds :
          cli_out' = cmd_evaluate(cli_args, rubrics_by_tier, artifact, context, certificate_id)
    /\ pc' = "cmd_evaluate"
    /\ UNCHANGED <<rubrics_by_tier, artifact, context, check, check_out, tier, tier_out, tier_results, gate_decision, results>>
    /\ UNCHANGED <<cli_args, certificateVars, verifyVars, concurrencyVars, merkleVars, manifestVars, loaderVars, harnessVars>>

SpecCli == InitCli /\ [][CmdEvaluate]_vars

\* C25: the exit code cmd_evaluate returns is 0 exactly when the decision of the
\* certificate is approve, 1 exactly when it is revise and 2 exactly when it is
\* block, with and without an output file.
C25_ExitCodeFollowsDecision ==
    (cli_out # NotCalled /\ cli_out.exc = "none") =>
        LET decision == cli_out.certificate.gate_decision.decision
        IN  /\ decision \in {"approve", "revise", "block"}
            /\ cli_out.value = 0 <=> decision = "approve"
            /\ cli_out.value = 1 <=> decision = "revise"
            /\ cli_out.value = 2 <=> decision = "block"

\* The certificate is written to the output file, the decision is block, the
\* exit code 2.
C25_Witness ==
    /\ cli_out # NotCalled
    /\ cli_out.exc = "none"
    /\ cli_out.written
    /\ cli_out.certificate.gate_decision.decision = "block"
    /\ cli_out.value = 2

C25_WitnessPrinted ==
    /\ cli_out # NotCalled
    /\ cli_out.exc = "none"
    /\ ~cli_out.written
    /\ cli_out.certificate.gate_decision.decision = "revise"
    /\ cli_out.value = 1

(***************************************************************************)
(* harness.py: BenchmarkHarness._evaluate_dataset.  The artifact generator *)
(* returned the list artifacts_and_contexts; the loop takes one pair at a  *)
(* time.                                                                   *)
(***************************************************************************)
MaxArtifacts == 2

DatasetId == PyStr(<<"test_dataset">>)
DatasetVersion == PyStr(<<"1.0.0">>)
DatasetResult(artifact_count, passes, revises, blocks, certs) ==
    [ dataset_id |-> DatasetId, artifact_count |-> artifact_count, pass_count |-> passes,
      revise_count |-> revises, block_count |-> blocks, certificates |-> certs ]

\* The context after context["provenance"]["dataset_id"] and ["dataset_version"]
\* are set, "provenance" being made a dict first where the key is missing.
WithDatasetProvenance(c) ==
    [c EXCEPT !.provenance = IF c.provenance.t = "absent" THEN Provenance("dict", 2, Absent)
                             ELSE Provenance("dict", c.provenance.n + 2, c.provenance.audit_trace_id)]
DatasetProvenance(c) ==
    ProvenanceOf(c) \cup {Item("dataset_id", DatasetId, {}), Item("dataset_version", DatasetVersion, {})}

\* As if the last branch of the count of decisions were missing.
CountedWithoutBlock(decision) ==
    [ pass_count |-> IF decision = "approve" THEN 1 ELSE 0,
      revise_count |-> IF decision = "revise" THEN 1 ELSE 0,
      block_count |-> 0 ]

\* Count decisions: what the if / elif / else adds to the three counters.
Counted(decision) ==
    [ pass_count |-> IF decision = "approve" THEN 1 ELSE 0,
      revise_count |-> IF decision = "revise" THEN 1 ELSE 0,
      block_count |-> IF decision \notin {"approve", "revise"} THEN 1 ELSE 0 ]

(***************************************************************************)
(* SpecHarness: _evaluate_dataset on the pairs of one dataset.             *)
(***************************************************************************)
Pair(a, c) == [artifact |-> a, context |-> c]
HarnessPairs ==
    { Pair(a, [BaseContext EXCEPT !.provenance = p, !.cohort_jaccard = j]) :
        a \in EvalArtifacts,
        p \in {Provenance("dict", 1, TraceId), Provenance("absent", 0, Absent)},
        j \in {PyFloat(85), PyFloat(50)} }
PairLists == UNION {[1..n -> HarnessPairs] : n \in 0..MaxArtifacts}

InitHarness ==
    /\ rubrics_by_tier \in CertCatalogs
    /\ artifacts_and_contexts \in PairLists
    /\ position = 0
    /\ certificates = <<>>
    /\ pass_count = 0 /\ revise_count = 0 /\ block_count = 0
    /\ dataset_result = NotCalled
    /\ artifact = BaseArtifact
    /\ context = BaseContext
    /\ check = NoCheck
    /\ check_out = RaisedCheck("not called")
    /\ tier = 0
    /\ tier_out = NoTierOutcome
    /\ tier_results = NoTierResults
    /\ gate_decision = NoGateDecision
    /\ results = <<>>
    /\ pc = "init"
    /\ IdleCertificate /\ IdleVerify /\ IdleConcurrency /\ IdleMerkle /\ IdleManifest /\ IdleLoader /\ IdleCli

\* One pass of the loop: provenance, evaluate, create_certificate, append, count.
\* An exception of evaluate ends _evaluate_dataset.
EvaluatePair ==
    /\ dataset_result = NotCalled
    /\ position < Len(artifacts_and_contexts)
    /\ LET pair == artifacts_and_contexts[position + 1]
           ctx == WithDatasetProvenance(pair.context)
       IN  \E evaluation \in {evaluate(rubrics_by_tier, pair.artifact, ctx)} :
             IF evaluation.exc # "none"
             THEN /\ dataset_result' = [exc |-> evaluation.exc, value |-> DatasetResult(0, 0, 0, 0, <<>>)]
                  /\ UNCHANGED <<position, certificates, pass_count, revise_count, block_count>>
             ELSE \E certificate_id \in CertificateIds :
                    \E cert \in {create_certificate(pair.artifact, evaluation.value, DatasetProvenance(ctx), certificate_id, Now)} :
                      LET counted == Counted(cert.gate_decision.decision)
                      IN  /\ certificates' = Append(certificates, cert)
                          /\ pass_count' = pass_count + counted.pass_count
                          /\ revise_count' = revise_count + counted.revise_count
                          /\ block_count' = block_count + counted.block_count
                          /\ position' = position + 1
                          /\ UNCHANGED dataset_result
    /\ pc' = "evaluate"
    /\ UNCHANGED <<rubrics_by_tier, artifact, context, check, check_out, tier, tier_out, tier_results, gate_decision, results>>
    /\ UNCHANGED <<artifacts_and_contexts, certificateVars, verifyVars, concurrencyVars, merkleVars, manifestVars, loaderVars, cliVars>>

\* The loop is over: the DatasetResult is returned.
ReturnDatasetResult ==
    /\ dataset_result = NotCalled
    /\ position = Len(artifacts_and_contexts)
    /\ dataset_result' = Returned(DatasetResult(Len(certificates), pass_count, revise_count, block_count, certificates))
    /\ pc' = "_evaluate_dataset"
    /\ UNCHANGED <<rubrics_by_tier, artifact, context, check, check_out, tier, tier_out, tier_results, gate_decision, results>>
    /\ UNCHANGED <<artifacts_and_contexts, position, certificates, pass_count, revise_count, block_count>>
    /\ UNCHANGED <<certificateVars, verifyVars, concurrencyVars, merkleVars, manifestVars, loaderVars, cliVars>>

NextHarness == EvaluatePair \/ ReturnDatasetResult

SpecHarness == InitHarness /\ [][NextHarness]_vars

CertificatesDeciding(decision) ==
    Cardinality({k \in 1..Len(certificates) : certificates[k].gate_decision.decision = decision})

\* C26: at every point of _evaluate_dataset there is one certificate for each pair
\* taken so far, in the order of the pairs; pass_count + revise_count +
\* block_count is the number of certificates, and each counter is the number of
\* certificates with the decision approve, revise and block; the DatasetResult
\* returned has artifact_count equal to the number of pairs of the generator.
C26_CountsMatchCertificates ==
    /\ Len(certificates) = position
    /\ \A k \in 1..Len(certificates) : certificates[k].artifact = artifacts_and_contexts[k].artifact
    /\ pass_count + revise_count + block_count = Len(certificates)
    /\ pass_count = CertificatesDeciding("approve")
    /\ revise_count = CertificatesDeciding("revise")
    /\ block_count = CertificatesDeciding("block")
    /\ (dataset_result # NotCalled /\ dataset_result.exc = "none") =>
          /\ dataset_result.value.artifact_count = Len(artifacts_and_contexts)
          /\ dataset_result.value.certificates = certificates
          /\ dataset_result.value.pass_count = pass_count
          /\ dataset_result.value.revise_count = revise_count
          /\ dataset_result.value.block_count = block_count

\* Two pairs with different artifacts, one approved and one blocked, returned.
C26_Witness ==
    /\ dataset_result # NotCalled
    /\ dataset_result.exc = "none"
    /\ dataset_result.value.artifact_count = 2
    /\ artifacts_and_contexts[1].artifact # artifacts_and_contexts[2].artifact
    /\ dataset_result.value.pass_count = 1
    /\ dataset_result.value.block_count = 1

====
